---- MODULE Spec2Model ----
(***************************************************************************)
(* License activation (activate.py).  One invocation of the script reads   *)
(* its request from the environment, validates it, loads licenses.json,    *)
(* finds or creates the license entry, decides, saves licenses.json and    *)
(* writes results/{requestId}.json.  Several invocations may run at once;  *)
(* the script takes no lock on licenses.json, so their file accesses       *)
(* interleave.  Strings the script transforms are sequences of characters. *)
(***************************************************************************)
EXTENDS Integers, Sequences, FiniteSets, TLC

\* ---------------------------------------------------------------- bounds
\* Number of invocations of the script in one behaviour.
NumInv == 3
\* Largest MAX_ACTIVATIONS an invocation is run with (the smallest is 1).
MaxAct == 2
\* Largest reading of the UTC clock (the smallest is 0).
MaxTime == 1
\* At most this many invocations run at the same time.
MaxOverlap == 2

Inv == 1..NumInv

VARIABLES
  pc,               \* position of each invocation in the script
  INPUT_EMAIL,      \* line 21, the environment's INPUT_EMAIL as given
  email,            \* line 21, normalised INPUT_EMAIL
  master_key,       \* line 22, normalised INPUT_MASTERKEY
  machine_id,       \* line 23
  machine_name,     \* line 24
  request_id,       \* line 25
  encryption_key,   \* line 26
  max_activations,  \* line 27
  db,               \* the invocation's in-memory copy of the ledger
  result,           \* the result document the invocation has built
  file,             \* licenses.json
  results,          \* the files results/{requestId}.json, by requestId
  now,              \* the latest reading of the UTC clock (microseconds from a
                    \* whole second) taken before a file access made so far
  issued_before,    \* history: the tokens of the success results that had
                    \* been written for this invocation's email, key,
                    \* machineId and MAX_ACTIVATIONS when it started
  durable           \* history: the last ledger licenses.json held as a
                    \* complete document

vars ==
  <<pc, INPUT_EMAIL, email, master_key, machine_id, machine_name, request_id,
    encryption_key, max_activations, db, result, file, results, now,
    issued_before, durable>>

\* ------------------------------------------------------- string functions
\* A character is its Unicode code point (0..1114111, the surrogates
\* 55296..57343 apart) and a string the script transforms is a sequence of
\* characters: <<97, 98>> is "ab".

\* str.lower() on one character, where it gives one character: <<lo, hi,
\* step, delta>> sends lo, lo + step, .., hi to themselves plus delta.
LowerRanges ==
  {
    <<65, 90, 1, 32>>, <<192, 214, 1, 32>>, <<216, 222, 1, 32>>, <<256, 302, 2, 1>>,
    <<306, 310, 2, 1>>, <<313, 327, 2, 1>>, <<330, 374, 2, 1>>, <<376, 376, 1, -121>>,
    <<377, 381, 2, 1>>, <<385, 385, 1, 210>>, <<386, 388, 2, 1>>, <<390, 390, 1, 206>>,
    <<391, 391, 1, 1>>, <<393, 394, 1, 205>>, <<395, 395, 1, 1>>, <<398, 398, 1, 79>>,
    <<399, 399, 1, 202>>, <<400, 400, 1, 203>>, <<401, 401, 1, 1>>, <<403, 403, 1, 205>>,
    <<404, 404, 1, 207>>, <<406, 406, 1, 211>>, <<407, 407, 1, 209>>, <<408, 408, 1, 1>>,
    <<412, 412, 1, 211>>, <<413, 413, 1, 213>>, <<415, 415, 1, 214>>, <<416, 420, 2, 1>>,
    <<422, 422, 1, 218>>, <<423, 423, 1, 1>>, <<425, 425, 1, 218>>, <<428, 428, 1, 1>>,
    <<430, 430, 1, 218>>, <<431, 431, 1, 1>>, <<433, 434, 1, 217>>, <<435, 437, 2, 1>>,
    <<439, 439, 1, 219>>, <<440, 440, 1, 1>>, <<444, 444, 1, 1>>, <<452, 452, 1, 2>>,
    <<453, 453, 1, 1>>, <<455, 455, 1, 2>>, <<456, 456, 1, 1>>, <<458, 458, 1, 2>>,
    <<459, 475, 2, 1>>, <<478, 494, 2, 1>>, <<497, 497, 1, 2>>, <<498, 500, 2, 1>>,
    <<502, 502, 1, -97>>, <<503, 503, 1, -56>>, <<504, 542, 2, 1>>, <<544, 544, 1, -130>>,
    <<546, 562, 2, 1>>, <<570, 570, 1, 10795>>, <<571, 571, 1, 1>>, <<573, 573, 1, -163>>,
    <<574, 574, 1, 10792>>, <<577, 577, 1, 1>>, <<579, 579, 1, -195>>, <<580, 580, 1, 69>>,
    <<581, 581, 1, 71>>, <<582, 590, 2, 1>>, <<880, 882, 2, 1>>, <<886, 886, 1, 1>>,
    <<895, 895, 1, 116>>, <<902, 902, 1, 38>>, <<904, 906, 1, 37>>, <<908, 908, 1, 64>>,
    <<910, 911, 1, 63>>, <<913, 929, 1, 32>>, <<931, 939, 1, 32>>, <<975, 975, 1, 8>>,
    <<984, 1006, 2, 1>>, <<1012, 1012, 1, -60>>, <<1015, 1015, 1, 1>>, <<1017, 1017, 1, -7>>,
    <<1018, 1018, 1, 1>>, <<1021, 1023, 1, -130>>, <<1024, 1039, 1, 80>>,
    <<1040, 1071, 1, 32>>, <<1120, 1152, 2, 1>>, <<1162, 1214, 2, 1>>, <<1216, 1216, 1, 15>>,
    <<1217, 1229, 2, 1>>, <<1232, 1326, 2, 1>>, <<1329, 1366, 1, 48>>, <<4256, 4293, 1, 7264>>,
    <<4295, 4295, 1, 7264>>, <<4301, 4301, 1, 7264>>, <<5024, 5103, 1, 38864>>,
    <<5104, 5109, 1, 8>>, <<7312, 7354, 1, -3008>>, <<7357, 7359, 1, -3008>>,
    <<7680, 7828, 2, 1>>, <<7838, 7838, 1, -7615>>, <<7840, 7934, 2, 1>>,
    <<7944, 7951, 1, -8>>, <<7960, 7965, 1, -8>>, <<7976, 7983, 1, -8>>, <<7992, 7999, 1, -8>>,
    <<8008, 8013, 1, -8>>, <<8025, 8031, 2, -8>>, <<8040, 8047, 1, -8>>, <<8072, 8079, 1, -8>>,
    <<8088, 8095, 1, -8>>, <<8104, 8111, 1, -8>>, <<8120, 8121, 1, -8>>,
    <<8122, 8123, 1, -74>>, <<8124, 8124, 1, -9>>, <<8136, 8139, 1, -86>>,
    <<8140, 8140, 1, -9>>, <<8152, 8153, 1, -8>>, <<8154, 8155, 1, -100>>,
    <<8168, 8169, 1, -8>>, <<8170, 8171, 1, -112>>, <<8172, 8172, 1, -7>>,
    <<8184, 8185, 1, -128>>, <<8186, 8187, 1, -126>>, <<8188, 8188, 1, -9>>,
    <<8486, 8486, 1, -7517>>, <<8490, 8490, 1, -8383>>, <<8491, 8491, 1, -8262>>,
    <<8498, 8498, 1, 28>>, <<8544, 8559, 1, 16>>, <<8579, 8579, 1, 1>>, <<9398, 9423, 1, 26>>,
    <<11264, 11311, 1, 48>>, <<11360, 11360, 1, 1>>, <<11362, 11362, 1, -10743>>,
    <<11363, 11363, 1, -3814>>, <<11364, 11364, 1, -10727>>, <<11367, 11371, 2, 1>>,
    <<11373, 11373, 1, -10780>>, <<11374, 11374, 1, -10749>>, <<11375, 11375, 1, -10783>>,
    <<11376, 11376, 1, -10782>>, <<11378, 11378, 1, 1>>, <<11381, 11381, 1, 1>>,
    <<11390, 11391, 1, -10815>>, <<11392, 11490, 2, 1>>, <<11499, 11501, 2, 1>>,
    <<11506, 11506, 1, 1>>, <<42560, 42604, 2, 1>>, <<42624, 42650, 2, 1>>,
    <<42786, 42798, 2, 1>>, <<42802, 42862, 2, 1>>, <<42873, 42875, 2, 1>>,
    <<42877, 42877, 1, -35332>>, <<42878, 42886, 2, 1>>, <<42891, 42891, 1, 1>>,
    <<42893, 42893, 1, -42280>>, <<42896, 42898, 2, 1>>, <<42902, 42920, 2, 1>>,
    <<42922, 42922, 1, -42308>>, <<42923, 42923, 1, -42319>>, <<42924, 42924, 1, -42315>>,
    <<42925, 42925, 1, -42305>>, <<42926, 42926, 1, -42308>>, <<42928, 42928, 1, -42258>>,
    <<42929, 42929, 1, -42282>>, <<42930, 42930, 1, -42261>>, <<42931, 42931, 1, 928>>,
    <<42932, 42946, 2, 1>>, <<42948, 42948, 1, -48>>, <<42949, 42949, 1, -42307>>,
    <<42950, 42950, 1, -35384>>, <<42951, 42953, 2, 1>>, <<42960, 42960, 1, 1>>,
    <<42966, 42968, 2, 1>>, <<42997, 42997, 1, 1>>, <<65313, 65338, 1, 32>>,
    <<66560, 66599, 1, 40>>, <<66736, 66771, 1, 40>>, <<66928, 66938, 1, 39>>,
    <<66940, 66954, 1, 39>>, <<66956, 66962, 1, 39>>, <<66964, 66965, 1, 39>>,
    <<68736, 68786, 1, 64>>, <<71840, 71871, 1, 32>>, <<93760, 93791, 1, 32>>,
    <<125184, 125217, 1, 34>>
  }

\* The character str.lower() sends to two characters.
LowerSpecial ==
  { <<304, <<105, 775>>>> }

\* str.upper() on one character, where it gives one character.
UpperRanges ==
  {
    <<97, 122, 1, -32>>, <<181, 181, 1, 743>>, <<224, 246, 1, -32>>, <<248, 254, 1, -32>>,
    <<255, 255, 1, 121>>, <<257, 303, 2, -1>>, <<305, 305, 1, -232>>, <<307, 311, 2, -1>>,
    <<314, 328, 2, -1>>, <<331, 375, 2, -1>>, <<378, 382, 2, -1>>, <<383, 383, 1, -300>>,
    <<384, 384, 1, 195>>, <<387, 389, 2, -1>>, <<392, 392, 1, -1>>, <<396, 396, 1, -1>>,
    <<402, 402, 1, -1>>, <<405, 405, 1, 97>>, <<409, 409, 1, -1>>, <<410, 410, 1, 163>>,
    <<414, 414, 1, 130>>, <<417, 421, 2, -1>>, <<424, 424, 1, -1>>, <<429, 429, 1, -1>>,
    <<432, 432, 1, -1>>, <<436, 438, 2, -1>>, <<441, 441, 1, -1>>, <<445, 445, 1, -1>>,
    <<447, 447, 1, 56>>, <<453, 453, 1, -1>>, <<454, 454, 1, -2>>, <<456, 456, 1, -1>>,
    <<457, 457, 1, -2>>, <<459, 459, 1, -1>>, <<460, 460, 1, -2>>, <<462, 476, 2, -1>>,
    <<477, 477, 1, -79>>, <<479, 495, 2, -1>>, <<498, 498, 1, -1>>, <<499, 499, 1, -2>>,
    <<501, 501, 1, -1>>, <<505, 543, 2, -1>>, <<547, 563, 2, -1>>, <<572, 572, 1, -1>>,
    <<575, 576, 1, 10815>>, <<578, 578, 1, -1>>, <<583, 591, 2, -1>>, <<592, 592, 1, 10783>>,
    <<593, 593, 1, 10780>>, <<594, 594, 1, 10782>>, <<595, 595, 1, -210>>,
    <<596, 596, 1, -206>>, <<598, 599, 1, -205>>, <<601, 601, 1, -202>>, <<603, 603, 1, -203>>,
    <<604, 604, 1, 42319>>, <<608, 608, 1, -205>>, <<609, 609, 1, 42315>>,
    <<611, 611, 1, -207>>, <<613, 613, 1, 42280>>, <<614, 614, 1, 42308>>,
    <<616, 616, 1, -209>>, <<617, 617, 1, -211>>, <<618, 618, 1, 42308>>,
    <<619, 619, 1, 10743>>, <<620, 620, 1, 42305>>, <<623, 623, 1, -211>>,
    <<625, 625, 1, 10749>>, <<626, 626, 1, -213>>, <<629, 629, 1, -214>>,
    <<637, 637, 1, 10727>>, <<640, 640, 1, -218>>, <<642, 642, 1, 42307>>,
    <<643, 643, 1, -218>>, <<647, 647, 1, 42282>>, <<648, 648, 1, -218>>, <<649, 649, 1, -69>>,
    <<650, 651, 1, -217>>, <<652, 652, 1, -71>>, <<658, 658, 1, -219>>, <<669, 669, 1, 42261>>,
    <<670, 670, 1, 42258>>, <<837, 837, 1, 84>>, <<881, 883, 2, -1>>, <<887, 887, 1, -1>>,
    <<891, 893, 1, 130>>, <<940, 940, 1, -38>>, <<941, 943, 1, -37>>, <<945, 961, 1, -32>>,
    <<962, 962, 1, -31>>, <<963, 971, 1, -32>>, <<972, 972, 1, -64>>, <<973, 974, 1, -63>>,
    <<976, 976, 1, -62>>, <<977, 977, 1, -57>>, <<981, 981, 1, -47>>, <<982, 982, 1, -54>>,
    <<983, 983, 1, -8>>, <<985, 1007, 2, -1>>, <<1008, 1008, 1, -86>>, <<1009, 1009, 1, -80>>,
    <<1010, 1010, 1, 7>>, <<1011, 1011, 1, -116>>, <<1013, 1013, 1, -96>>,
    <<1016, 1016, 1, -1>>, <<1019, 1019, 1, -1>>, <<1072, 1103, 1, -32>>,
    <<1104, 1119, 1, -80>>, <<1121, 1153, 2, -1>>, <<1163, 1215, 2, -1>>,
    <<1218, 1230, 2, -1>>, <<1231, 1231, 1, -15>>, <<1233, 1327, 2, -1>>,
    <<1377, 1414, 1, -48>>, <<4304, 4346, 1, 3008>>, <<4349, 4351, 1, 3008>>,
    <<5112, 5117, 1, -8>>, <<7296, 7296, 1, -6254>>, <<7297, 7297, 1, -6253>>,
    <<7298, 7298, 1, -6244>>, <<7299, 7300, 1, -6242>>, <<7301, 7301, 1, -6243>>,
    <<7302, 7302, 1, -6236>>, <<7303, 7303, 1, -6181>>, <<7304, 7304, 1, 35266>>,
    <<7545, 7545, 1, 35332>>, <<7549, 7549, 1, 3814>>, <<7566, 7566, 1, 35384>>,
    <<7681, 7829, 2, -1>>, <<7835, 7835, 1, -59>>, <<7841, 7935, 2, -1>>, <<7936, 7943, 1, 8>>,
    <<7952, 7957, 1, 8>>, <<7968, 7975, 1, 8>>, <<7984, 7991, 1, 8>>, <<8000, 8005, 1, 8>>,
    <<8017, 8023, 2, 8>>, <<8032, 8039, 1, 8>>, <<8048, 8049, 1, 74>>, <<8050, 8053, 1, 86>>,
    <<8054, 8055, 1, 100>>, <<8056, 8057, 1, 128>>, <<8058, 8059, 1, 112>>,
    <<8060, 8061, 1, 126>>, <<8112, 8113, 1, 8>>, <<8126, 8126, 1, -7205>>,
    <<8144, 8145, 1, 8>>, <<8160, 8161, 1, 8>>, <<8165, 8165, 1, 7>>, <<8526, 8526, 1, -28>>,
    <<8560, 8575, 1, -16>>, <<8580, 8580, 1, -1>>, <<9424, 9449, 1, -26>>,
    <<11312, 11359, 1, -48>>, <<11361, 11361, 1, -1>>, <<11365, 11365, 1, -10795>>,
    <<11366, 11366, 1, -10792>>, <<11368, 11372, 2, -1>>, <<11379, 11379, 1, -1>>,
    <<11382, 11382, 1, -1>>, <<11393, 11491, 2, -1>>, <<11500, 11502, 2, -1>>,
    <<11507, 11507, 1, -1>>, <<11520, 11557, 1, -7264>>, <<11559, 11559, 1, -7264>>,
    <<11565, 11565, 1, -7264>>, <<42561, 42605, 2, -1>>, <<42625, 42651, 2, -1>>,
    <<42787, 42799, 2, -1>>, <<42803, 42863, 2, -1>>, <<42874, 42876, 2, -1>>,
    <<42879, 42887, 2, -1>>, <<42892, 42892, 1, -1>>, <<42897, 42899, 2, -1>>,
    <<42900, 42900, 1, 48>>, <<42903, 42921, 2, -1>>, <<42933, 42947, 2, -1>>,
    <<42952, 42954, 2, -1>>, <<42961, 42961, 1, -1>>, <<42967, 42969, 2, -1>>,
    <<42998, 42998, 1, -1>>, <<43859, 43859, 1, -928>>, <<43888, 43967, 1, -38864>>,
    <<65345, 65370, 1, -32>>, <<66600, 66639, 1, -40>>, <<66776, 66811, 1, -40>>,
    <<66967, 66977, 1, -39>>, <<66979, 66993, 1, -39>>, <<66995, 67001, 1, -39>>,
    <<67003, 67004, 1, -39>>, <<68800, 68850, 1, -64>>, <<71872, 71903, 1, -32>>,
    <<93792, 93823, 1, -32>>, <<125218, 125251, 1, -34>>
  }

\* The characters str.upper() sends to two or three characters.
UpperSpecial ==
  {
    <<223, <<83, 83>>>>, <<329, <<700, 78>>>>, <<496, <<74, 780>>>>,
    <<912, <<921, 776, 769>>>>, <<944, <<933, 776, 769>>>>, <<1415, <<1333, 1362>>>>,
    <<7830, <<72, 817>>>>, <<7831, <<84, 776>>>>, <<7832, <<87, 778>>>>, <<7833, <<89, 778>>>>,
    <<7834, <<65, 702>>>>, <<8016, <<933, 787>>>>, <<8018, <<933, 787, 768>>>>,
    <<8020, <<933, 787, 769>>>>, <<8022, <<933, 787, 834>>>>, <<8064, <<7944, 921>>>>,
    <<8065, <<7945, 921>>>>, <<8066, <<7946, 921>>>>, <<8067, <<7947, 921>>>>,
    <<8068, <<7948, 921>>>>, <<8069, <<7949, 921>>>>, <<8070, <<7950, 921>>>>,
    <<8071, <<7951, 921>>>>, <<8072, <<7944, 921>>>>, <<8073, <<7945, 921>>>>,
    <<8074, <<7946, 921>>>>, <<8075, <<7947, 921>>>>, <<8076, <<7948, 921>>>>,
    <<8077, <<7949, 921>>>>, <<8078, <<7950, 921>>>>, <<8079, <<7951, 921>>>>,
    <<8080, <<7976, 921>>>>, <<8081, <<7977, 921>>>>, <<8082, <<7978, 921>>>>,
    <<8083, <<7979, 921>>>>, <<8084, <<7980, 921>>>>, <<8085, <<7981, 921>>>>,
    <<8086, <<7982, 921>>>>, <<8087, <<7983, 921>>>>, <<8088, <<7976, 921>>>>,
    <<8089, <<7977, 921>>>>, <<8090, <<7978, 921>>>>, <<8091, <<7979, 921>>>>,
    <<8092, <<7980, 921>>>>, <<8093, <<7981, 921>>>>, <<8094, <<7982, 921>>>>,
    <<8095, <<7983, 921>>>>, <<8096, <<8040, 921>>>>, <<8097, <<8041, 921>>>>,
    <<8098, <<8042, 921>>>>, <<8099, <<8043, 921>>>>, <<8100, <<8044, 921>>>>,
    <<8101, <<8045, 921>>>>, <<8102, <<8046, 921>>>>, <<8103, <<8047, 921>>>>,
    <<8104, <<8040, 921>>>>, <<8105, <<8041, 921>>>>, <<8106, <<8042, 921>>>>,
    <<8107, <<8043, 921>>>>, <<8108, <<8044, 921>>>>, <<8109, <<8045, 921>>>>,
    <<8110, <<8046, 921>>>>, <<8111, <<8047, 921>>>>, <<8114, <<8122, 921>>>>,
    <<8115, <<913, 921>>>>, <<8116, <<902, 921>>>>, <<8118, <<913, 834>>>>,
    <<8119, <<913, 834, 921>>>>, <<8124, <<913, 921>>>>, <<8130, <<8138, 921>>>>,
    <<8131, <<919, 921>>>>, <<8132, <<905, 921>>>>, <<8134, <<919, 834>>>>,
    <<8135, <<919, 834, 921>>>>, <<8140, <<919, 921>>>>, <<8146, <<921, 776, 768>>>>,
    <<8147, <<921, 776, 769>>>>, <<8150, <<921, 834>>>>, <<8151, <<921, 776, 834>>>>,
    <<8162, <<933, 776, 768>>>>, <<8163, <<933, 776, 769>>>>, <<8164, <<929, 787>>>>,
    <<8166, <<933, 834>>>>, <<8167, <<933, 776, 834>>>>, <<8178, <<8186, 921>>>>,
    <<8179, <<937, 921>>>>, <<8180, <<911, 921>>>>, <<8182, <<937, 834>>>>,
    <<8183, <<937, 834, 921>>>>, <<8188, <<937, 921>>>>, <<64256, <<70, 70>>>>,
    <<64257, <<70, 73>>>>, <<64258, <<70, 76>>>>, <<64259, <<70, 70, 73>>>>,
    <<64260, <<70, 70, 76>>>>, <<64261, <<83, 84>>>>, <<64262, <<83, 84>>>>,
    <<64275, <<1348, 1350>>>>, <<64276, <<1348, 1333>>>>, <<64277, <<1348, 1339>>>>,
    <<64278, <<1358, 1350>>>>, <<64279, <<1348, 1341>>>>
  }

\* Case-ignorable characters, as ranges <<lo, hi>> (str.lower() skips them
\* when it looks for the letters around a capital sigma).
CaseIgnorableRanges ==
  {
    <<39, 39>>, <<46, 46>>, <<58, 58>>, <<94, 94>>, <<96, 96>>, <<168, 168>>, <<173, 173>>,
    <<175, 175>>, <<180, 180>>, <<183, 184>>, <<688, 879>>, <<884, 885>>, <<890, 890>>,
    <<900, 901>>, <<903, 903>>, <<1155, 1161>>, <<1369, 1369>>, <<1375, 1375>>, <<1425, 1469>>,
    <<1471, 1471>>, <<1473, 1474>>, <<1476, 1477>>, <<1479, 1479>>, <<1524, 1524>>,
    <<1536, 1541>>, <<1552, 1562>>, <<1564, 1564>>, <<1600, 1600>>, <<1611, 1631>>,
    <<1648, 1648>>, <<1750, 1757>>, <<1759, 1768>>, <<1770, 1773>>, <<1807, 1807>>,
    <<1809, 1809>>, <<1840, 1866>>, <<1958, 1968>>, <<2027, 2037>>, <<2042, 2042>>,
    <<2045, 2045>>, <<2070, 2093>>, <<2137, 2139>>, <<2184, 2184>>, <<2192, 2193>>,
    <<2200, 2207>>, <<2249, 2306>>, <<2362, 2362>>, <<2364, 2364>>, <<2369, 2376>>,
    <<2381, 2381>>, <<2385, 2391>>, <<2402, 2403>>, <<2417, 2417>>, <<2433, 2433>>,
    <<2492, 2492>>, <<2497, 2500>>, <<2509, 2509>>, <<2530, 2531>>, <<2558, 2558>>,
    <<2561, 2562>>, <<2620, 2620>>, <<2625, 2626>>, <<2631, 2632>>, <<2635, 2637>>,
    <<2641, 2641>>, <<2672, 2673>>, <<2677, 2677>>, <<2689, 2690>>, <<2748, 2748>>,
    <<2753, 2757>>, <<2759, 2760>>, <<2765, 2765>>, <<2786, 2787>>, <<2810, 2815>>,
    <<2817, 2817>>, <<2876, 2876>>, <<2879, 2879>>, <<2881, 2884>>, <<2893, 2893>>,
    <<2901, 2902>>, <<2914, 2915>>, <<2946, 2946>>, <<3008, 3008>>, <<3021, 3021>>,
    <<3072, 3072>>, <<3076, 3076>>, <<3132, 3132>>, <<3134, 3136>>, <<3142, 3144>>,
    <<3146, 3149>>, <<3157, 3158>>, <<3170, 3171>>, <<3201, 3201>>, <<3260, 3260>>,
    <<3263, 3263>>, <<3270, 3270>>, <<3276, 3277>>, <<3298, 3299>>, <<3328, 3329>>,
    <<3387, 3388>>, <<3393, 3396>>, <<3405, 3405>>, <<3426, 3427>>, <<3457, 3457>>,
    <<3530, 3530>>, <<3538, 3540>>, <<3542, 3542>>, <<3633, 3633>>, <<3636, 3642>>,
    <<3654, 3662>>, <<3761, 3761>>, <<3764, 3772>>, <<3782, 3782>>, <<3784, 3789>>,
    <<3864, 3865>>, <<3893, 3893>>, <<3895, 3895>>, <<3897, 3897>>, <<3953, 3966>>,
    <<3968, 3972>>, <<3974, 3975>>, <<3981, 3991>>, <<3993, 4028>>, <<4038, 4038>>,
    <<4141, 4144>>, <<4146, 4151>>, <<4153, 4154>>, <<4157, 4158>>, <<4184, 4185>>,
    <<4190, 4192>>, <<4209, 4212>>, <<4226, 4226>>, <<4229, 4230>>, <<4237, 4237>>,
    <<4253, 4253>>, <<4348, 4348>>, <<4957, 4959>>, <<5906, 5908>>, <<5938, 5939>>,
    <<5970, 5971>>, <<6002, 6003>>, <<6068, 6069>>, <<6071, 6077>>, <<6086, 6086>>,
    <<6089, 6099>>, <<6103, 6103>>, <<6109, 6109>>, <<6155, 6159>>, <<6211, 6211>>,
    <<6277, 6278>>, <<6313, 6313>>, <<6432, 6434>>, <<6439, 6440>>, <<6450, 6450>>,
    <<6457, 6459>>, <<6679, 6680>>, <<6683, 6683>>, <<6742, 6742>>, <<6744, 6750>>,
    <<6752, 6752>>, <<6754, 6754>>, <<6757, 6764>>, <<6771, 6780>>, <<6783, 6783>>,
    <<6823, 6823>>, <<6832, 6862>>, <<6912, 6915>>, <<6964, 6964>>, <<6966, 6970>>,
    <<6972, 6972>>, <<6978, 6978>>, <<7019, 7027>>, <<7040, 7041>>, <<7074, 7077>>,
    <<7080, 7081>>, <<7083, 7085>>, <<7142, 7142>>, <<7144, 7145>>, <<7149, 7149>>,
    <<7151, 7153>>, <<7212, 7219>>, <<7222, 7223>>, <<7288, 7293>>, <<7376, 7378>>,
    <<7380, 7392>>, <<7394, 7400>>, <<7405, 7405>>, <<7412, 7412>>, <<7416, 7417>>,
    <<7468, 7530>>, <<7544, 7544>>, <<7579, 7679>>, <<8125, 8125>>, <<8127, 8129>>,
    <<8141, 8143>>, <<8157, 8159>>, <<8173, 8175>>, <<8189, 8190>>, <<8203, 8207>>,
    <<8216, 8217>>, <<8228, 8228>>, <<8231, 8231>>, <<8234, 8238>>, <<8288, 8292>>,
    <<8294, 8303>>, <<8305, 8305>>, <<8319, 8319>>, <<8336, 8348>>, <<8400, 8432>>,
    <<11388, 11389>>, <<11503, 11505>>, <<11631, 11631>>, <<11647, 11647>>, <<11744, 11775>>,
    <<11823, 11823>>, <<12293, 12293>>, <<12330, 12333>>, <<12337, 12341>>, <<12347, 12347>>,
    <<12441, 12446>>, <<12540, 12542>>, <<40981, 40981>>, <<42232, 42237>>, <<42508, 42508>>,
    <<42607, 42610>>, <<42612, 42621>>, <<42623, 42623>>, <<42652, 42655>>, <<42736, 42737>>,
    <<42752, 42785>>, <<42864, 42864>>, <<42888, 42890>>, <<42994, 42996>>, <<43000, 43001>>,
    <<43010, 43010>>, <<43014, 43014>>, <<43019, 43019>>, <<43045, 43046>>, <<43052, 43052>>,
    <<43204, 43205>>, <<43232, 43249>>, <<43263, 43263>>, <<43302, 43309>>, <<43335, 43345>>,
    <<43392, 43394>>, <<43443, 43443>>, <<43446, 43449>>, <<43452, 43453>>, <<43471, 43471>>,
    <<43493, 43494>>, <<43561, 43566>>, <<43569, 43570>>, <<43573, 43574>>, <<43587, 43587>>,
    <<43596, 43596>>, <<43632, 43632>>, <<43644, 43644>>, <<43696, 43696>>, <<43698, 43700>>,
    <<43703, 43704>>, <<43710, 43711>>, <<43713, 43713>>, <<43741, 43741>>, <<43756, 43757>>,
    <<43763, 43764>>, <<43766, 43766>>, <<43867, 43871>>, <<43881, 43883>>, <<44005, 44005>>,
    <<44008, 44008>>, <<44013, 44013>>, <<64286, 64286>>, <<64434, 64450>>, <<65024, 65039>>,
    <<65043, 65043>>, <<65056, 65071>>, <<65106, 65106>>, <<65109, 65109>>, <<65279, 65279>>,
    <<65287, 65287>>, <<65294, 65294>>, <<65306, 65306>>, <<65342, 65342>>, <<65344, 65344>>,
    <<65392, 65392>>, <<65438, 65439>>, <<65507, 65507>>, <<65529, 65531>>, <<66045, 66045>>,
    <<66272, 66272>>, <<66422, 66426>>, <<67456, 67461>>, <<67463, 67504>>, <<67506, 67514>>,
    <<68097, 68099>>, <<68101, 68102>>, <<68108, 68111>>, <<68152, 68154>>, <<68159, 68159>>,
    <<68325, 68326>>, <<68900, 68903>>, <<69291, 69292>>, <<69446, 69456>>, <<69506, 69509>>,
    <<69633, 69633>>, <<69688, 69702>>, <<69744, 69744>>, <<69747, 69748>>, <<69759, 69761>>,
    <<69811, 69814>>, <<69817, 69818>>, <<69821, 69821>>, <<69826, 69826>>, <<69837, 69837>>,
    <<69888, 69890>>, <<69927, 69931>>, <<69933, 69940>>, <<70003, 70003>>, <<70016, 70017>>,
    <<70070, 70078>>, <<70089, 70092>>, <<70095, 70095>>, <<70191, 70193>>, <<70196, 70196>>,
    <<70198, 70199>>, <<70206, 70206>>, <<70367, 70367>>, <<70371, 70378>>, <<70400, 70401>>,
    <<70459, 70460>>, <<70464, 70464>>, <<70502, 70508>>, <<70512, 70516>>, <<70712, 70719>>,
    <<70722, 70724>>, <<70726, 70726>>, <<70750, 70750>>, <<70835, 70840>>, <<70842, 70842>>,
    <<70847, 70848>>, <<70850, 70851>>, <<71090, 71093>>, <<71100, 71101>>, <<71103, 71104>>,
    <<71132, 71133>>, <<71219, 71226>>, <<71229, 71229>>, <<71231, 71232>>, <<71339, 71339>>,
    <<71341, 71341>>, <<71344, 71349>>, <<71351, 71351>>, <<71453, 71455>>, <<71458, 71461>>,
    <<71463, 71467>>, <<71727, 71735>>, <<71737, 71738>>, <<71995, 71996>>, <<71998, 71998>>,
    <<72003, 72003>>, <<72148, 72151>>, <<72154, 72155>>, <<72160, 72160>>, <<72193, 72202>>,
    <<72243, 72248>>, <<72251, 72254>>, <<72263, 72263>>, <<72273, 72278>>, <<72281, 72283>>,
    <<72330, 72342>>, <<72344, 72345>>, <<72752, 72758>>, <<72760, 72765>>, <<72767, 72767>>,
    <<72850, 72871>>, <<72874, 72880>>, <<72882, 72883>>, <<72885, 72886>>, <<73009, 73014>>,
    <<73018, 73018>>, <<73020, 73021>>, <<73023, 73029>>, <<73031, 73031>>, <<73104, 73105>>,
    <<73109, 73109>>, <<73111, 73111>>, <<73459, 73460>>, <<78896, 78904>>, <<92912, 92916>>,
    <<92976, 92982>>, <<92992, 92995>>, <<94031, 94031>>, <<94095, 94111>>, <<94176, 94177>>,
    <<94179, 94180>>, <<110576, 110579>>, <<110581, 110587>>, <<110589, 110590>>,
    <<113821, 113822>>, <<113824, 113827>>, <<118528, 118573>>, <<118576, 118598>>,
    <<119143, 119145>>, <<119155, 119170>>, <<119173, 119179>>, <<119210, 119213>>,
    <<119362, 119364>>, <<121344, 121398>>, <<121403, 121452>>, <<121461, 121461>>,
    <<121476, 121476>>, <<121499, 121503>>, <<121505, 121519>>, <<122880, 122886>>,
    <<122888, 122904>>, <<122907, 122913>>, <<122915, 122916>>, <<122918, 122922>>,
    <<123184, 123197>>, <<123566, 123566>>, <<123628, 123631>>, <<125136, 125142>>,
    <<125252, 125259>>, <<127995, 127999>>, <<917505, 917505>>, <<917536, 917631>>,
    <<917760, 917999>>
  }

\* Cased characters that are not case-ignorable, as ranges <<lo, hi>>.
CasedRanges ==
  {
    <<65, 90>>, <<97, 122>>, <<170, 170>>, <<181, 181>>, <<186, 186>>, <<192, 214>>,
    <<216, 246>>, <<248, 442>>, <<444, 447>>, <<452, 659>>, <<661, 687>>, <<880, 883>>,
    <<886, 887>>, <<891, 893>>, <<895, 895>>, <<902, 902>>, <<904, 906>>, <<908, 908>>,
    <<910, 929>>, <<931, 1013>>, <<1015, 1153>>, <<1162, 1327>>, <<1329, 1366>>,
    <<1376, 1416>>, <<4256, 4293>>, <<4295, 4295>>, <<4301, 4301>>, <<4304, 4346>>,
    <<4349, 4351>>, <<5024, 5109>>, <<5112, 5117>>, <<7296, 7304>>, <<7312, 7354>>,
    <<7357, 7359>>, <<7424, 7467>>, <<7531, 7543>>, <<7545, 7578>>, <<7680, 7957>>,
    <<7960, 7965>>, <<7968, 8005>>, <<8008, 8013>>, <<8016, 8023>>, <<8025, 8025>>,
    <<8027, 8027>>, <<8029, 8029>>, <<8031, 8061>>, <<8064, 8116>>, <<8118, 8124>>,
    <<8126, 8126>>, <<8130, 8132>>, <<8134, 8140>>, <<8144, 8147>>, <<8150, 8155>>,
    <<8160, 8172>>, <<8178, 8180>>, <<8182, 8188>>, <<8450, 8450>>, <<8455, 8455>>,
    <<8458, 8467>>, <<8469, 8469>>, <<8473, 8477>>, <<8484, 8484>>, <<8486, 8486>>,
    <<8488, 8488>>, <<8490, 8493>>, <<8495, 8500>>, <<8505, 8505>>, <<8508, 8511>>,
    <<8517, 8521>>, <<8526, 8526>>, <<8544, 8575>>, <<8579, 8580>>, <<9398, 9449>>,
    <<11264, 11387>>, <<11390, 11492>>, <<11499, 11502>>, <<11506, 11507>>, <<11520, 11557>>,
    <<11559, 11559>>, <<11565, 11565>>, <<42560, 42605>>, <<42624, 42651>>, <<42786, 42863>>,
    <<42865, 42887>>, <<42891, 42894>>, <<42896, 42954>>, <<42960, 42961>>, <<42963, 42963>>,
    <<42965, 42969>>, <<42997, 42998>>, <<43002, 43002>>, <<43824, 43866>>, <<43872, 43880>>,
    <<43888, 43967>>, <<64256, 64262>>, <<64275, 64279>>, <<65313, 65338>>, <<65345, 65370>>,
    <<66560, 66639>>, <<66736, 66771>>, <<66776, 66811>>, <<66928, 66938>>, <<66940, 66954>>,
    <<66956, 66962>>, <<66964, 66965>>, <<66967, 66977>>, <<66979, 66993>>, <<66995, 67001>>,
    <<67003, 67004>>, <<68736, 68786>>, <<68800, 68850>>, <<71840, 71903>>, <<93760, 93823>>,
    <<119808, 119892>>, <<119894, 119964>>, <<119966, 119967>>, <<119970, 119970>>,
    <<119973, 119974>>, <<119977, 119980>>, <<119982, 119993>>, <<119995, 119995>>,
    <<119997, 120003>>, <<120005, 120069>>, <<120071, 120074>>, <<120077, 120084>>,
    <<120086, 120092>>, <<120094, 120121>>, <<120123, 120126>>, <<120128, 120132>>,
    <<120134, 120134>>, <<120138, 120144>>, <<120146, 120485>>, <<120488, 120512>>,
    <<120514, 120538>>, <<120540, 120570>>, <<120572, 120596>>, <<120598, 120628>>,
    <<120630, 120654>>, <<120656, 120686>>, <<120688, 120712>>, <<120714, 120744>>,
    <<120746, 120770>>, <<120772, 120779>>, <<122624, 122633>>, <<122635, 122654>>,
    <<125184, 125251>>, <<127280, 127305>>, <<127312, 127337>>, <<127344, 127369>>
  }

InRanges(c, rs) ==
  \E r \in rs : r[1] <= c /\ c <= r[2]

\* c moved by the delta of the range of rs that holds it, c when none does.
Shifted(c, rs) ==
  IF \E r \in rs : r[1] <= c /\ c <= r[2] /\ (c - r[1]) % r[3] = 0
    THEN c + (CHOOSE r \in rs : r[1] <= c /\ c <= r[2] /\ (c - r[1]) % r[3] = 0)[4]
    ELSE c

\* The lowercase of one character, taken alone; below 128 only A..Z change.
LowerChar(c) ==
  IF c < 128
    THEN (IF 65 <= c /\ c <= 90 THEN <<c + 32>> ELSE <<c>>)
  ELSE IF \E x \in LowerSpecial : x[1] = c
    THEN (CHOOSE x \in LowerSpecial : x[1] = c)[2]
  ELSE <<Shifted(c, LowerRanges)>>

\* The uppercase of one character; below 128 only a..z change.
UpperChar(c) ==
  IF c < 128
    THEN (IF 97 <= c /\ c <= 122 THEN <<c - 32>> ELSE <<c>>)
  ELSE IF \E x \in UpperSpecial : x[1] = c
    THEN (CHOOSE x \in UpperSpecial : x[1] = c)[2]
  ELSE <<Shifted(c, UpperRanges)>>

IsCaseIgnorable(c) ==
  InRanges(c, CaseIgnorableRanges)

IsCased(c) ==
  InRanges(c, CasedRanges)

\* The capital sigma at s[i] ends a word: the nearest character before it
\* that is not case-ignorable is cased, and the nearest one after it that is
\* not case-ignorable, if any, is not cased.
FinalSigma(s, i) ==
  /\ \E j \in 1..(i - 1) :
       /\ ~IsCaseIgnorable(s[j]) /\ IsCased(s[j])
       /\ \A k \in (j + 1)..(i - 1) : IsCaseIgnorable(s[k])
  /\ ~ \E j \in (i + 1)..Len(s) :
         /\ ~IsCaseIgnorable(s[j]) /\ IsCased(s[j])
         /\ \A k \in (i + 1)..(j - 1) : IsCaseIgnorable(s[k])

RECURSIVE LowerFrom(_, _)
LowerFrom(s, i) ==
  IF i > Len(s) THEN <<>>
  ELSE (IF s[i] = 931
          THEN (IF FinalSigma(s, i) THEN <<962>> ELSE <<963>>)
          ELSE LowerChar(s[i]))
       \o LowerFrom(s, i + 1)

\* str.lower()
Lower(s) ==
  LowerFrom(s, 1)

RECURSIVE UpperFrom(_, _)
UpperFrom(s, i) ==
  IF i > Len(s) THEN <<>> ELSE UpperChar(s[i]) \o UpperFrom(s, i + 1)

\* str.upper()
Upper(s) ==
  UpperFrom(s, 1)

\* The characters str.strip() removes (str.isspace).
IsSpace(c) ==
  c \in (9..13) \cup (28..32) \cup {133, 160, 5760} \cup (8192..8202)
          \cup {8232, 8233, 8239, 8287, 12288}

RECURSIVE LStrip(_)
LStrip(s) ==
  IF s # <<>> /\ IsSpace(Head(s)) THEN LStrip(Tail(s)) ELSE s

RECURSIVE RStrip(_)
RStrip(s) ==
  IF s # <<>> /\ IsSpace(s[Len(s)]) THEN RStrip(SubSeq(s, 1, Len(s) - 1)) ELSE s

\* str.strip()
Strip(s) ==
  RStrip(LStrip(s))

IsNotHyphen(c) ==
  c # 45

\* str.replace("-", "")
RemoveHyphens(s) ==
  SelectSeq(s, IsNotHyphen)

\* ------------------------------------------------------------- SHA-256
\* hashlib.sha256(data.encode()).hexdigest() on the data strings the model's
\* requests produce: <<data, digest>>.
Sha256Table ==
  {
    \* sha256("a|lifetime|s") = c4688613659bd95bcd50938d6db753baf36a40fbaeaa8bb293bafb629e46a25e
    <<<<97, 124, 108, 105, 102, 101, 116, 105, 109, 101, 124, 115>>,
      <<99, 52, 54, 56, 56, 54, 49, 51, 54, 53, 57, 98, 100, 57, 53, 98, 99, 100, 53, 48, 57, 51, 56, 100, 54, 100, 98, 55, 53, 51, 98, 97, 102, 51, 54, 97, 52, 48, 102, 98, 97, 101, 97, 97, 56, 98, 98, 50, 57, 51, 98, 97, 102, 98, 54, 50, 57, 101, 52, 54, 97, 50, 53, 101>>>>,
    \* sha256("a|lifetime|t") = 5ca375c3bf0f323129e2d2bcefaf9ae23653ea66f69c295ecc52dffefefa5c1b
    <<<<97, 124, 108, 105, 102, 101, 116, 105, 109, 101, 124, 116>>,
      <<53, 99, 97, 51, 55, 53, 99, 51, 98, 102, 48, 102, 51, 50, 51, 49, 50, 57, 101, 50, 100, 50, 98, 99, 101, 102, 97, 102, 57, 97, 101, 50, 51, 54, 53, 51, 101, 97, 54, 54, 102, 54, 57, 99, 50, 57, 53, 101, 99, 99, 53, 50, 100, 102, 102, 101, 102, 101, 102, 97, 53, 99, 49, 98>>>>,
    \* sha256("b|lifetime|s") = 04389023c0f0c83e3db66e4d2bcf5a8bf01d04d12212abeb93849f2f9c5a151a
    <<<<98, 124, 108, 105, 102, 101, 116, 105, 109, 101, 124, 115>>,
      <<48, 52, 51, 56, 57, 48, 50, 51, 99, 48, 102, 48, 99, 56, 51, 101, 51, 100, 98, 54, 54, 101, 52, 100, 50, 98, 99, 102, 53, 97, 56, 98, 102, 48, 49, 100, 48, 52, 100, 49, 50, 50, 49, 50, 97, 98, 101, 98, 57, 51, 56, 52, 57, 102, 50, 102, 57, 99, 53, 97, 49, 53, 49, 97>>>>,
    \* sha256("b|lifetime|t") = 0f5d543494f1212be25e6990c15d92be6fe72b640e267d9cf71b4d2c8ee7d223
    <<<<98, 124, 108, 105, 102, 101, 116, 105, 109, 101, 124, 116>>,
      <<48, 102, 53, 100, 53, 52, 51, 52, 57, 52, 102, 49, 50, 49, 50, 98, 101, 50, 53, 101, 54, 57, 57, 48, 99, 49, 53, 100, 57, 50, 98, 101, 54, 102, 101, 55, 50, 98, 54, 52, 48, 101, 50, 54, 55, 100, 57, 99, 102, 55, 49, 98, 52, 100, 50, 99, 56, 101, 101, 55, 100, 50, 50, 51>>>>,
    \* sha256("a|m|activated|s") = 9f66bd32ffeafd8ff03cb8114e87f32aaf6dbebf4c510940fc5c22ccc588519b
    <<<<97, 124, 109, 124, 97, 99, 116, 105, 118, 97, 116, 101, 100, 124, 115>>,
      <<57, 102, 54, 54, 98, 100, 51, 50, 102, 102, 101, 97, 102, 100, 56, 102, 102, 48, 51, 99, 98, 56, 49, 49, 52, 101, 56, 55, 102, 51, 50, 97, 97, 102, 54, 100, 98, 101, 98, 102, 52, 99, 53, 49, 48, 57, 52, 48, 102, 99, 53, 99, 50, 50, 99, 99, 99, 53, 56, 56, 53, 49, 57, 98>>>>,
    \* sha256("a|m|activated|t") = 50267ba43b23a1492b629212fc031188117399f359de9e96bb591585bfa83a85
    <<<<97, 124, 109, 124, 97, 99, 116, 105, 118, 97, 116, 101, 100, 124, 116>>,
      <<53, 48, 50, 54, 55, 98, 97, 52, 51, 98, 50, 51, 97, 49, 52, 57, 50, 98, 54, 50, 57, 50, 49, 50, 102, 99, 48, 51, 49, 49, 56, 56, 49, 49, 55, 51, 57, 57, 102, 51, 53, 57, 100, 101, 57, 101, 57, 54, 98, 98, 53, 57, 49, 53, 56, 53, 98, 102, 97, 56, 51, 97, 56, 53>>>>,
    \* sha256("a|n|activated|s") = 4e27bb3ca838b5a29f932d753326aa52d9bb4b99562e28f1d6bd66d9a2eb57a8
    <<<<97, 124, 110, 124, 97, 99, 116, 105, 118, 97, 116, 101, 100, 124, 115>>,
      <<52, 101, 50, 55, 98, 98, 51, 99, 97, 56, 51, 56, 98, 53, 97, 50, 57, 102, 57, 51, 50, 100, 55, 53, 51, 51, 50, 54, 97, 97, 53, 50, 100, 57, 98, 98, 52, 98, 57, 57, 53, 54, 50, 101, 50, 56, 102, 49, 100, 54, 98, 100, 54, 54, 100, 57, 97, 50, 101, 98, 53, 55, 97, 56>>>>,
    \* sha256("a|n|activated|t") = 3a80f0424a7fd24c70f39cf0a7b0710979eb604eb2990cf29eb5beb9cba8e3db
    <<<<97, 124, 110, 124, 97, 99, 116, 105, 118, 97, 116, 101, 100, 124, 116>>,
      <<51, 97, 56, 48, 102, 48, 52, 50, 52, 97, 55, 102, 100, 50, 52, 99, 55, 48, 102, 51, 57, 99, 102, 48, 97, 55, 98, 48, 55, 49, 48, 57, 55, 57, 101, 98, 54, 48, 52, 101, 98, 50, 57, 57, 48, 99, 102, 50, 57, 101, 98, 53, 98, 101, 98, 57, 99, 98, 97, 56, 101, 51, 100, 98>>>>,
    \* sha256("a|o|activated|s") = 7c2d60a5452f45fc6b9d14b5c004a8f155072372ac34bb9c42b8c6002e126db8
    <<<<97, 124, 111, 124, 97, 99, 116, 105, 118, 97, 116, 101, 100, 124, 115>>,
      <<55, 99, 50, 100, 54, 48, 97, 53, 52, 53, 50, 102, 52, 53, 102, 99, 54, 98, 57, 100, 49, 52, 98, 53, 99, 48, 48, 52, 97, 56, 102, 49, 53, 53, 48, 55, 50, 51, 55, 50, 97, 99, 51, 52, 98, 98, 57, 99, 52, 50, 98, 56, 99, 54, 48, 48, 50, 101, 49, 50, 54, 100, 98, 56>>>>,
    \* sha256("a|o|activated|t") = d20c1347236352457dd5431a776a7c51a50fe30f09b75b081984fdeebac76697
    <<<<97, 124, 111, 124, 97, 99, 116, 105, 118, 97, 116, 101, 100, 124, 116>>,
      <<100, 50, 48, 99, 49, 51, 52, 55, 50, 51, 54, 51, 53, 50, 52, 53, 55, 100, 100, 53, 52, 51, 49, 97, 55, 55, 54, 97, 55, 99, 53, 49, 97, 53, 48, 102, 101, 51, 48, 102, 48, 57, 98, 55, 53, 98, 48, 56, 49, 57, 56, 52, 102, 100, 101, 101, 98, 97, 99, 55, 54, 54, 57, 55>>>>,
    \* sha256("b|m|activated|s") = 7453fe0a10ac9c35f57859fc97a54c224bbe56b43ee18177eedfff333bda5356
    <<<<98, 124, 109, 124, 97, 99, 116, 105, 118, 97, 116, 101, 100, 124, 115>>,
      <<55, 52, 53, 51, 102, 101, 48, 97, 49, 48, 97, 99, 57, 99, 51, 53, 102, 53, 55, 56, 53, 57, 102, 99, 57, 55, 97, 53, 52, 99, 50, 50, 52, 98, 98, 101, 53, 54, 98, 52, 51, 101, 101, 49, 56, 49, 55, 55, 101, 101, 100, 102, 102, 102, 51, 51, 51, 98, 100, 97, 53, 51, 53, 54>>>>,
    \* sha256("b|m|activated|t") = 5a8840d1ca3760b39660f8f65f0ee24a3a28d53610591ffd09a11cb70507b8d8
    <<<<98, 124, 109, 124, 97, 99, 116, 105, 118, 97, 116, 101, 100, 124, 116>>,
      <<53, 97, 56, 56, 52, 48, 100, 49, 99, 97, 51, 55, 54, 48, 98, 51, 57, 54, 54, 48, 102, 56, 102, 54, 53, 102, 48, 101, 101, 50, 52, 97, 51, 97, 50, 56, 100, 53, 51, 54, 49, 48, 53, 57, 49, 102, 102, 100, 48, 57, 97, 49, 49, 99, 98, 55, 48, 53, 48, 55, 98, 56, 100, 56>>>>,
    \* sha256("b|n|activated|s") = 6e3ef7496e92f497c0a9302afa0536bb85de19edfefb302a9909bf5d27c4313d
    <<<<98, 124, 110, 124, 97, 99, 116, 105, 118, 97, 116, 101, 100, 124, 115>>,
      <<54, 101, 51, 101, 102, 55, 52, 57, 54, 101, 57, 50, 102, 52, 57, 55, 99, 48, 97, 57, 51, 48, 50, 97, 102, 97, 48, 53, 51, 54, 98, 98, 56, 53, 100, 101, 49, 57, 101, 100, 102, 101, 102, 98, 51, 48, 50, 97, 57, 57, 48, 57, 98, 102, 53, 100, 50, 55, 99, 52, 51, 49, 51, 100>>>>,
    \* sha256("b|n|activated|t") = bf9d2aa6d973233b3b75db742ff665c6f6194a68fbd793ad1b423b681d43b5bb
    <<<<98, 124, 110, 124, 97, 99, 116, 105, 118, 97, 116, 101, 100, 124, 116>>,
      <<98, 102, 57, 100, 50, 97, 97, 54, 100, 57, 55, 51, 50, 51, 51, 98, 51, 98, 55, 53, 100, 98, 55, 52, 50, 102, 102, 54, 54, 53, 99, 54, 102, 54, 49, 57, 52, 97, 54, 56, 102, 98, 100, 55, 57, 51, 97, 100, 49, 98, 52, 50, 51, 98, 54, 56, 49, 100, 52, 51, 98, 53, 98, 98>>>>,
    \* sha256("b|o|activated|s") = 4df7760e9deb436835e8eb4217704d1022303857daba17831684df8a3ab6e0f1
    <<<<98, 124, 111, 124, 97, 99, 116, 105, 118, 97, 116, 101, 100, 124, 115>>,
      <<52, 100, 102, 55, 55, 54, 48, 101, 57, 100, 101, 98, 52, 51, 54, 56, 51, 53, 101, 56, 101, 98, 52, 50, 49, 55, 55, 48, 52, 100, 49, 48, 50, 50, 51, 48, 51, 56, 53, 55, 100, 97, 98, 97, 49, 55, 56, 51, 49, 54, 56, 52, 100, 102, 56, 97, 51, 97, 98, 54, 101, 48, 102, 49>>>>,
    \* sha256("b|o|activated|t") = 730ea53359aff5d74688c08fbf4c915ea0a36ddbdf6800d27f86a3cccf519ac1
    <<<<98, 124, 111, 124, 97, 99, 116, 105, 118, 97, 116, 101, 100, 124, 116>>,
      <<55, 51, 48, 101, 97, 53, 51, 51, 53, 57, 97, 102, 102, 53, 100, 55, 52, 54, 56, 56, 99, 48, 56, 102, 98, 102, 52, 99, 57, 49, 53, 101, 97, 48, 97, 51, 54, 100, 100, 98, 100, 102, 54, 56, 48, 48, 100, 50, 55, 102, 56, 54, 97, 51, 99, 99, 99, 102, 53, 49, 57, 97, 99, 49>>>>
  }

Sha256Hex(data) ==
  (CHOOSE row \in Sha256Table : row[1] = data)[2]

\* generate_master_key: first 16 hex characters of
\* SHA256(email|lifetime|ENCRYPTION_KEY), in uppercase.
generate_master_key(email_input, key) ==
  Upper(SubSeq(Sha256Hex(email_input \o <<124, 108, 105, 102, 101, 116, 105, 109, 101, 124>> \o key), 1, 16))

\* The activation token of PASO 4 and PASO 8.
ActivationToken(e, m, key) ==
  Sha256Hex(e \o <<124>> \o m \o <<124, 97, 99, 116, 105, 118, 97, 116, 101, 100, 124>> \o key)

\* ------------------------------------------------------------ requests
\* "C4688613659BD95B"
KeyA == <<67, 52, 54, 56, 56, 54, 49, 51, 54, 53, 57, 66, 68, 57, 53, 66>>
\* " c468-8613-659b-d95b"
KeyAHyphenated == <<32, 99, 52, 54, 56, 45, 56, 54, 49, 51, 45, 54, 53, 57, 98, 45, 100, 57, 53, 98>>
\* "5CA375C3BF0F3231"
KeyARotated == <<53, 67, 65, 51, 55, 53, 67, 51, 66, 70, 48, 70, 51, 50, 51, 49>>
\* "0F5D543494F1212B"
KeyB == <<48, 70, 53, 68, 53, 52, 51, 52, 57, 52, 70, 49, 50, 49, 50, 66>>

\* A request for a second license, "b".
SecondLicense ==
  [email |-> <<98>>, masterKey |-> KeyB, machineId |-> <<109>>,
   machineName |-> <<80>>, secret |-> <<116>>, hasRequestId |-> TRUE]

\* A request with a blank machine id.
BlankMachineId ==
  [email |-> <<97>>, masterKey |-> KeyA, machineId |-> <<32>>,
   machineName |-> <<80>>, secret |-> <<115>>, hasRequestId |-> TRUE]

\* The raw environment of the invocations that run at the same time
\* (requestId apart): emails "a" and no-break space + "A" for one license,
\* machine ids "m", "n" and "o", machine names "P", "Q" and none,
\* ENCRYPTION_KEY "s", "t" and none.
ConcurrentRequests ==
  { [email |-> <<97>>, masterKey |-> KeyA, machineId |-> <<109>>,
     machineName |-> <<80>>, secret |-> <<115>>, hasRequestId |-> TRUE],
    [email |-> <<160, 65>>, masterKey |-> KeyAHyphenated, machineId |-> <<110>>,
     machineName |-> <<>>, secret |-> <<115>>, hasRequestId |-> TRUE],
    \* a run after ENCRYPTION_KEY was changed, with the key derived from it
    [email |-> <<97>>, masterKey |-> KeyARotated, machineId |-> <<111>>,
     machineName |-> <<81>>, secret |-> <<116>>, hasRequestId |-> TRUE],
    \* a key that is not the one derived from the email
    [email |-> <<98>>, masterKey |-> KeyA, machineId |-> <<109>>,
     machineName |-> <<80>>, secret |-> <<115>>, hasRequestId |-> TRUE],
    \* no ENCRYPTION_KEY
    [email |-> <<97>>, masterKey |-> KeyA, machineId |-> <<109>>,
     machineName |-> <<80>>, secret |-> <<>>, hasRequestId |-> TRUE],
    \* no request id and no ENCRYPTION_KEY
    [email |-> <<97>>, masterKey |-> KeyA, machineId |-> <<109>>,
     machineName |-> <<80>>, secret |-> <<>>, hasRequestId |-> FALSE] }

\* The raw environment of the invocations that run one at a time.
Requests ==
  ConcurrentRequests \cup {SecondLicense, BlankMachineId}

\* Lines 21-24 and 26 on the environment of each request: what the script
\* holds in email, master_key, machine_id, machine_name and encryption_key.
Environment ==
  [r \in Requests |->
     [email |-> Lower(Strip(r.email)),
      master_key |-> RemoveHyphens(Upper(Strip(r.masterKey))),
      machine_id |-> Strip(r.machineId),
      machine_name |-> Strip(r.machineName),
      encryption_key |-> r.secret]]

\* INPUT_REQUESTID of invocation p: its own ("r1", "r2", ..), or none.
Digits ==
  <<49, 50, 51, 52, 53, 54, 55, 56, 57>>

RequestIdOf(p, r) ==
  IF r.hasRequestId THEN <<114, Digits[p]>> ELSE <<>>

RequestIds ==
  {<<>>} \cup {<<114, Digits[p]>> : p \in Inv}

\* ------------------------------------------------------------ the ledger
\* The structure PASO 2 creates when licenses.json does not exist.
EmptyDb(t) ==
  [version |-> "1.0", lastUpdated |-> t, licenses |-> <<>>]

\* No ledger in memory (before PASO 2, and after the process has exited).
NoDb ==
  [version |-> "", lastUpdated |-> 0, licenses |-> <<>>]

\* licenses.json: absent, a parseable JSON document, or bytes json.load
\* rejects; size is the file's length in bytes.
AbsentFile ==
  [kind |-> "absent", db |-> NoDb, size |-> 0]

\* The clock counts microseconds from a whole second.
MicrosecondsPerSecond == 1000000

\* Characters of datetime.isoformat(): the microseconds are left out when
\* they are 0.
IsoformatLen(t) ==
  IF t % MicrosecondsPerSecond = 0 THEN 25 ELSE 32

\* Bytes json.dump writes for one character of a string: two for the quote,
\* the backslash and \b \t \n \f \r, one for the other characters from
\* space to tilde, six (\uXXXX) for the rest up to 65535 and twelve above.
JsonCharLen(c) ==
  IF c \in {34, 92} THEN 2
  ELSE IF 32 <= c /\ c <= 126 THEN 1
  ELSE IF c \in {8, 9, 10, 12, 13} THEN 2
  ELSE IF c < 65536 THEN 6
  ELSE 12

RECURSIVE JsonStringLenFrom(_, _)
JsonStringLenFrom(s, i) ==
  IF i > Len(s) THEN 0 ELSE JsonCharLen(s[i]) + JsonStringLenFrom(s, i + 1)

JsonStringLen(s) ==
  JsonStringLenFrom(s, 1)

\* Bytes of json.dump(db, f, indent=2) that do not depend on the values.
DbBaseSize == 61
EntryBaseSize == 120
ActivationBaseSize == 103

ActivationSize(act) ==
  ActivationBaseSize + JsonStringLen(act.machineId)
    + JsonStringLen(act.machineName) + IsoformatLen(act.activatedAt)

RECURSIVE SumActivationSizes(_, _)
SumActivationSizes(acts, i) ==
  IF i > Len(acts) THEN 0
  ELSE ActivationSize(acts[i]) + SumActivationSizes(acts, i + 1)

EntrySize(lic) ==
  EntryBaseSize + JsonStringLen(lic.email) + JsonStringLen(lic.masterKey)
    + IsoformatLen(lic.createdAt)
    + (IF lic.isActive THEN 4 ELSE 5)
    + (IF lic.activations = <<>> THEN 0
       ELSE 8 + SumActivationSizes(lic.activations, 1)
              + 2 * (Len(lic.activations) - 1))

RECURSIVE SumEntrySizes(_, _)
SumEntrySizes(lics, i) ==
  IF i > Len(lics) THEN 0
  ELSE EntrySize(lics[i]) + SumEntrySizes(lics, i + 1)

JsonSize(d) ==
  DbBaseSize + IsoformatLen(d.lastUpdated)
    + (IF d.licenses = <<>> THEN 0
       ELSE 4 + SumEntrySizes(d.licenses, 1) + 2 * (Len(d.licenses) - 1))

JsonFile(d) ==
  [kind |-> "json", db |-> d, size |-> JsonSize(d)]

PartialFile(n) ==
  [kind |-> "partial", db |-> NoDb, size |-> n]

\* ------------------------------------------------------------- results
Message(text, occupied, max) ==
  [text |-> text, occupied |-> occupied, max |-> max]

MsgMissing == Message("Missing required fields.", <<>>, 0)
MsgMisconfigured == Message("Server misconfigured. Contact support.", <<>>, 0)
MsgRejected ==
  Message("Invalid license key or email. Please verify and try again.", <<>>, 0)
MsgAlreadyActive == Message("License is active on this computer.", <<>>, 0)
MsgLimit(occupied, max) ==
  Message("This license is already activated on \"{occupied}\". Maximum allowed: {max_activations} computer(s). Contact support to transfer your license.",
          occupied, max)
MsgActivated == Message("License activated successfully!", <<>>, 0)

\* Characters of str(n).
RECURSIVE DecimalLen(_)
DecimalLen(n) ==
  IF n < 0 THEN 1 + DecimalLen(0 - n)
  ELSE IF n < 10 THEN 1
  ELSE 1 + DecimalLen(n \div 10)

\* Bytes json.dump writes for the message (the two quotes around the
\* machine name take two bytes each).
MessageLen(m) ==
  IF m = MsgMissing THEN 24
  ELSE IF m = MsgMisconfigured THEN 38
  ELSE IF m = MsgRejected THEN 58
  ELSE IF m = MsgAlreadyActive THEN 35
  ELSE IF m = MsgActivated THEN 31
  ELSE 115 + JsonStringLen(m.occupied) + DecimalLen(m.max)

\* A result whose success flag is always set.
write_result_flagged(rid, success, message, token, t) ==
  [requestId |-> rid, success |-> TRUE, message |-> message,
   activationToken |-> token, timestamp |-> t]

\* write_result, lines 46-53: the result document; t is the clock reading
\* of line 52.
write_result(rid, success, message, token, t) ==
  [requestId |-> rid, success |-> success, message |-> message,
   activationToken |-> token, timestamp |-> t]

\* Bytes of json.dump(result, f, indent=2) that do not depend on the values.
ResultBaseSize == 97

ResultSize(res) ==
  ResultBaseSize + JsonStringLen(res.requestId)
    + (IF res.success THEN 4 ELSE 5)
    + MessageLen(res.message) + JsonStringLen(res.activationToken)
    + IsoformatLen(res.timestamp)

\* results/{request_id}.json: absent, a parseable document, or bytes that
\* are not one; size is the file's length in bytes.
NoResultFile ==
  [kind |-> "absent", doc |-> <<>>, size |-> 0]

ResultFile(res) ==
  [kind |-> "json", doc |-> <<res>>, size |-> ResultSize(res)]

PartialResultFile(n) ==
  [kind |-> "partial", doc |-> <<>>, size |-> n]

\* The result document invocation p has built.
Outcome(p) ==
  result[p][1]

\* Invocation p has written a success result and exited.
Succeeded(p) ==
  pc[p] = "done" /\ Outcome(p).success

\* datetime.now(timezone.utc) never goes back: a clock reading is at least
\* now, any value from there on is one the clock can have by the time it is
\* read, and the file access that follows a reading t is made when the
\* clock has reached t.
ClockAfter(t) ==
  IF t > now THEN t ELSE now

\* ------------------------------------------------------------- Init
Init ==
  /\ pc = [p \in Inv |-> "idle"]
  /\ email = [p \in Inv |-> <<>>]
  /\ master_key = [p \in Inv |-> <<>>]
  /\ machine_id = [p \in Inv |-> <<>>]
  /\ machine_name = [p \in Inv |-> <<>>]
  /\ request_id = [p \in Inv |-> <<>>]
  /\ encryption_key = [p \in Inv |-> <<>>]
  /\ max_activations = [p \in Inv |-> 1]
  /\ db = [p \in Inv |-> NoDb]
  /\ result = [p \in Inv |-> <<>>]
  /\ file \in {AbsentFile, JsonFile(EmptyDb(0))}
  /\ results = [r \in RequestIds |-> NoResultFile]
  /\ now = 0
  /\ issued_before = [p \in Inv |-> {}]
  /\ INPUT_EMAIL = [p \in Inv |-> <<>>]
  /\ durable = file.db

\* ------------------------------------------------------------- actions
\* Lines 62-64.
MissingFields(e, mk, mid, rid) ==
  e = <<>> \/ mk = <<>> \/ mid = <<>> \/ rid = <<>>

\* A comparison that looks at the key's length only.
KeyMatchesLength(mk, e, ek) ==
  Len(mk) = Len(generate_master_key(e, ek))

\* PASO 1 (lines 74-75).
KeyMatches(mk, e, ek) ==
  mk = generate_master_key(e, ek)

\* Invocation p has started and has not exited.
Running(p) ==
  pc[p] \in {"load", "save", "dump", "result", "write"}

\* Lines 21-79: read the environment, VALIDACIONES PREVIAS, PASO 1; on an
\* early exit the result document is built (lines 46-53) and the run stands
\* before line 54.
Invoke(p, r, k) ==
  LET e == Environment[r].email
      mk == Environment[r].master_key
      mid == Environment[r].machine_id
      mn == Environment[r].machine_name
      rid == Strip(RequestIdOf(p, r))
  IN
  /\ pc[p] = "idle"
  /\ \A q \in Inv : q < p => pc[q] # "idle"
  /\ Cardinality({q \in Inv : Running(q)}) < MaxOverlap
  /\ INPUT_EMAIL' = [INPUT_EMAIL EXCEPT ![p] = r.email]
  /\ email' = [email EXCEPT ![p] = e]
  /\ master_key' = [master_key EXCEPT ![p] = mk]
  /\ machine_id' = [machine_id EXCEPT ![p] = mid]
  /\ machine_name' = [machine_name EXCEPT ![p] = mn]
  /\ request_id' = [request_id EXCEPT ![p] = rid]
  /\ encryption_key' = [encryption_key EXCEPT ![p] = r.secret]
  /\ max_activations' = [max_activations EXCEPT ![p] = k]
  /\ IF MissingFields(e, mk, mid, rid)
        THEN /\ \E t \in now..MaxTime :
                  result' = [result EXCEPT ![p] =
                               <<write_result(rid, FALSE, MsgMissing, <<>>, t)>>]
             /\ pc' = [pc EXCEPT ![p] = "result"]
      ELSE IF r.secret = <<>>
        THEN /\ \E t \in now..MaxTime :
                  result' = [result EXCEPT ![p] =
                               <<write_result(rid, FALSE, MsgMisconfigured, <<>>, t)>>]
             /\ pc' = [pc EXCEPT ![p] = "result"]
      ELSE IF ~KeyMatches(mk, e, r.secret)
        THEN /\ \E t \in now..MaxTime :
                  result' = [result EXCEPT ![p] =
                               <<write_result(rid, FALSE, MsgRejected, <<>>, t)>>]
             /\ pc' = [pc EXCEPT ![p] = "result"]
      ELSE /\ pc' = [pc EXCEPT ![p] = "load"]
           /\ UNCHANGED result
  /\ issued_before' =
       [issued_before EXCEPT ![p] =
          {Outcome(q).activationToken :
             q \in {x \in Inv : /\ Succeeded(x)
                                /\ email[x] = e /\ master_key[x] = mk
                                /\ machine_id[x] = mid
                                /\ max_activations[x] = k}}]
  /\ UNCHANGED <<db, file, results, now, durable>>

\* A load that falls back to the empty structure on unreadable bytes.
CanParseAnything(f) ==
  TRUE

\* PASO 2 (line 89): json.load accepts the file's bytes.
CanParse(f) ==
  f.kind # "partial"

\* Lines 104-108: index of the first entry with this email, 0 when none.
FindEntry(licenses, e) ==
  IF \E i \in 1..Len(licenses) : licenses[i].email = e
    THEN CHOOSE i \in 1..Len(licenses) :
           /\ licenses[i].email = e
           /\ \A j \in 1..(i - 1) : licenses[j].email # e
    ELSE 0

\* Lines 112-118.
NewEntry(e, mk, t) ==
  [email |-> e, masterKey |-> mk, createdAt |-> t, isActive |-> TRUE,
   activations |-> <<>>]

\* An entry created without looking for one.
FindOrCreateAlways(d, e, mk, t) ==
  [d EXCEPT !.licenses = Append(@, NewEntry(e, mk, t))]

\* PASO 3 (lines 104-119): the ledger with an entry for e.
FindOrCreate(d, e, mk, t) ==
  IF FindEntry(d.licenses, e) = 0
    THEN [d EXCEPT !.licenses = Append(@, NewEntry(e, mk, t))]
    ELSE d

\* A scan that starts at the second activation.
already_active_later(lic, mid) ==
  \E j \in 2..Len(lic.activations) : lic.activations[j].machineId = mid

\* A scan that stops after the first activation.
already_active_first(lic, mid) ==
  lic.activations # <<>> /\ lic.activations[1].machineId = mid

\* PASO 4 (lines 126-130).
already_active_here(lic, mid) ==
  \E j \in 1..Len(lic.activations) : lic.activations[j].machineId = mid

\* The limit test one activation early.
LimitReachedEarly(lic, max) ==
  Len(lic.activations) >= max - 1

\* The limit test off by one.
LimitReachedOffByOne(lic, max) ==
  Len(lic.activations) > max

\* PASO 5 (line 143).
LimitReached(lic, max) ==
  Len(lic.activations) >= max

\* "another computer" (line 144).
AnotherComputer ==
  <<97, 110, 111, 116, 104, 101, 114, 32, 99, 111, 109, 112, 117, 116, 101, 114>>

\* The name of the latest activation instead of the first.
occupiedLast(lic) ==
  lic.activations[Len(lic.activations)].machineName

\* PASO 5 (line 144): activations[0].get("machineName", "another computer").
occupied(lic) ==
  IF "machineName" \in DOMAIN lic.activations[1]
    THEN lic.activations[1].machineName
    ELSE AnotherComputer

\* "Unknown" (line 159).
Unknown ==
  <<85, 110, 107, 110, 111, 119, 110>>

\* An activation without the default machine name.
new_activationNoDefault(mid, mn, t) ==
  [machineId |-> mid, machineName |-> mn, activatedAt |-> t]

\* PASO 6 (lines 157-161); t is the clock reading of line 160.
new_activation(mid, mn, t) ==
  [machineId |-> mid,
   machineName |-> IF mn # <<>> THEN mn ELSE Unknown,
   activatedAt |-> t]

\* The activation put in front of the entry's list.
AddActivationFront(d, i, act, t) ==
  [d EXCEPT !.licenses[i].activations = <<act>> \o @, !.lastUpdated = t]

\* The ledger stamped without the activation.
AddActivationNone(d, i, act, t) ==
  [d EXCEPT !.lastUpdated = t]

\* PASO 6 (lines 162-163); t is the clock reading of line 163.
AddActivation(d, i, act, t) ==
  [d EXCEPT !.licenses[i].activations = Append(@, act), !.lastUpdated = t]

\* An exit that stamps the in-memory ledger and writes it back.
LedgerStampedOnExit(f, d) ==
  JsonFile([d EXCEPT !.lastUpdated = now])

\* Lines 136 and 151: exit(0) comes before PASO 7; licenses.json is as it was.
LedgerOnExit(f, d) ==
  f

\* PASO 2 to PASO 6 (lines 87-163): load licenses.json (or start from the
\* empty structure), then find or create the entry, decide and add the
\* activation, all on the in-memory ledger.  json.load raises on bytes that
\* are not a JSON document and the process dies with the traceback.  The
\* file is read once; what follows is computed in the run's memory, with
\* the clock readings t1 (line 94), t2 (line 115), t3 (line 160, or line 52
\* on an exit) and t4 (line 163).  On AlreadyActive and LimitReached the
\* result document is built and the run stands before line 54.
LoadAndDecide(p) ==
  /\ pc[p] = "load"
  /\ IF ~CanParse(file)
       THEN /\ pc' = [pc EXCEPT ![p] = "crashed"]
            /\ UNCHANGED <<db, result, file>>
     ELSE \E t1 \in now..MaxTime : \E t2 \in t1..MaxTime :
          \E t3 \in t2..MaxTime : \E t4 \in t3..MaxTime :
       LET d0 == IF file.kind = "absent" THEN EmptyDb(t1) ELSE file.db
           d1 == FindOrCreate(d0, email[p], master_key[p], t2)
           i == FindEntry(d1.licenses, email[p])
           lic == d1.licenses[i]
       IN
       IF already_active_here(lic, machine_id[p])
            THEN /\ result' = [result EXCEPT ![p] =
                      <<write_result(request_id[p], TRUE, MsgAlreadyActive,
                          ActivationToken(email[p], machine_id[p], encryption_key[p]),
                          t3)>>]
                 /\ pc' = [pc EXCEPT ![p] = "result"]
                 /\ file' = LedgerOnExit(file, d1)
                 /\ UNCHANGED db
          ELSE IF LimitReached(lic, max_activations[p])
            THEN IF lic.activations = <<>>
                   THEN \* activations[0] raises IndexError
                        /\ pc' = [pc EXCEPT ![p] = "crashed"]
                        /\ UNCHANGED <<db, result, file>>
                   ELSE /\ result' = [result EXCEPT ![p] =
                             <<write_result(request_id[p], FALSE,
                                 MsgLimit(occupied(lic), max_activations[p]),
                                 <<>>, t3)>>]
                        /\ pc' = [pc EXCEPT ![p] = "result"]
                        /\ file' = LedgerOnExit(file, d1)
                        /\ UNCHANGED db
          ELSE /\ db' = [db EXCEPT ![p] =
                           AddActivation(d1, i,
                             new_activation(machine_id[p], machine_name[p], t3), t4)]
               /\ pc' = [pc EXCEPT ![p] = "save"]
               /\ UNCHANGED <<result, file>>
  /\ durable' = IF file'.kind = "json" THEN file'.db ELSE durable
  /\ UNCHANGED <<INPUT_EMAIL, email, master_key, machine_id, machine_name,
                 request_id, encryption_key, max_activations, results, now,
                 issued_before>>

\* PASO 7 (line 171): open(LICENSES_FILE, "w") creates or truncates the file.
SaveOpen(p) ==
  /\ pc[p] = "save"
  /\ file' = PartialFile(0)
  /\ now' = ClockAfter(db[p].lastUpdated)
  /\ pc' = [pc EXCEPT ![p] = "dump"]
  /\ UNCHANGED <<INPUT_EMAIL, email, master_key, machine_id, machine_name,
                 request_id, encryption_key, max_activations, db, result,
                 results, issued_before, durable>>

\* PASO 7 (line 172): the document is written from offset 0 and the file is
\* closed (bytes another writer put beyond its end stay in the file); then
\* the token is computed and the success result is built (lines 180-181,
\* 46-53): the run stands before line 54.
SaveDump(p) ==
  /\ pc[p] = "dump"
  /\ file' = IF file.size <= JsonSize(db[p])
               THEN JsonFile(db[p])
               ELSE PartialFile(file.size)
  /\ \E t \in now..MaxTime :
       result' = [result EXCEPT ![p] =
                    <<write_result(request_id[p], TRUE, MsgActivated,
                        ActivationToken(email[p], machine_id[p], encryption_key[p]),
                        t)>>]
  /\ db' = [db EXCEPT ![p] = NoDb]
  /\ pc' = [pc EXCEPT ![p] = "result"]
  /\ durable' = IF file'.kind = "json" THEN file'.db ELSE durable
  /\ UNCHANGED <<INPUT_EMAIL, email, master_key, machine_id, machine_name,
                 request_id, encryption_key, max_activations, results, now,
                 issued_before>>

\* write_result, line 54: open(f"results/{request_id}.json", "w") creates or
\* truncates the result file.
ResultOpen(p) ==
  /\ pc[p] = "result"
  /\ results' = [results EXCEPT ![request_id[p]] = PartialResultFile(0)]
  /\ now' = ClockAfter(Outcome(p).timestamp)
  /\ pc' = [pc EXCEPT ![p] = "write"]
  /\ UNCHANGED <<INPUT_EMAIL, email, master_key, machine_id, machine_name,
                 request_id, encryption_key, max_activations, db, result, file,
                 issued_before, durable>>

\* write_result, lines 55-56, and exit: the document is written from offset
\* 0 and the file is closed (bytes another run put beyond its end stay in
\* the file); the process exits.
ResultWrite(p) ==
  /\ pc[p] = "write"
  /\ results' = [results EXCEPT ![request_id[p]] =
                   IF @.size <= ResultSize(Outcome(p))
                     THEN ResultFile(Outcome(p))
                     ELSE PartialResultFile(@.size)]
  /\ pc' = [pc EXCEPT ![p] = "done"]
  /\ UNCHANGED <<INPUT_EMAIL, email, master_key, machine_id, machine_name,
                 request_id, encryption_key, max_activations, db, result, file,
                 now, issued_before, durable>>

\* MAX_ACTIVATIONS is the workflow's setting: the invocations of one
\* behaviour of Spec all run with the value the first one ran with.
Setting ==
  IF pc[1] = "idle" THEN 1..MaxAct ELSE {max_activations[1]}

Next ==
  \/ \E p \in Inv, r \in ConcurrentRequests, k \in Setting : Invoke(p, r, k)
  \/ \E p \in Inv : LoadAndDecide(p)
  \/ \E p \in Inv : SaveOpen(p)
  \/ \E p \in Inv : SaveDump(p)
  \/ \E p \in Inv : ResultOpen(p)
  \/ \E p \in Inv : ResultWrite(p)

Spec ==
  Init /\ [][Next]_vars

\* The script's own assumption: one invocation at a time (a new one starts
\* only when no other is running), each with any MAX_ACTIVATIONS.
InvokeAlone(p, r, k) ==
  /\ \A q \in Inv : ~Running(q)
  /\ Invoke(p, r, k)

NextSeq ==
  \/ \E p \in Inv, r \in Requests, k \in 1..MaxAct : InvokeAlone(p, r, k)
  \/ \E p \in Inv : LoadAndDecide(p)
  \/ \E p \in Inv : SaveOpen(p)
  \/ \E p \in Inv : SaveDump(p)
  \/ \E p \in Inv : ResultOpen(p)
  \/ \E p \in Inv : ResultWrite(p)

SpecSeq ==
  Init /\ [][NextSeq]_vars

\* The next statement of a started run.
RunStep ==
  \E p \in Inv :
    \/ LoadAndDecide(p)
    \/ SaveOpen(p)
    \/ SaveDump(p)
    \/ ResultOpen(p)
    \/ ResultWrite(p)

\* A started run is scheduled until it exits.
SpecSeqFair ==
  /\ SpecSeq
  /\ WF_vars(RunStep)

\* ============================================================== claims
Validated(p) ==
  \/ pc[p] \in {"load", "save", "dump", "crashed"}
  \/ /\ pc[p] \in {"result", "write", "done"}
     /\ Outcome(p).message \notin {MsgMissing, MsgMisconfigured, MsgRejected}

SameRequest(p, q) ==
  /\ email[p] = email[q]
  /\ master_key[p] = master_key[q]
  /\ machine_id[p] = machine_id[q]

\* C1: in every state of the persisted ledger, every license entry records
\* at most maxActivations activations, whatever the interleaving of the
\* invocations' loads and saves (all run with the same maxActivations).
LedgerWithinLimit ==
  file.kind = "json" =>
    \A i \in 1..Len(file.db.licenses), p \in Inv :
      pc[p] # "idle" =>
        Len(file.db.licenses[i].activations) <= max_activations[p]

\* C1 witness: an entry is full while another invocation, which loaded the
\* ledger before that entry was filled, is about to save its own activation.
LedgerFullUnderOverlap ==
  \E p, q \in Inv :
    /\ p # q
    /\ pc[p] = "done" /\ Outcome(p).message = MsgActivated
    /\ pc[q] = "save" /\ email[q] = email[p] /\ machine_id[q] # machine_id[p]
    /\ file.kind = "json"
    /\ \E i \in 1..Len(file.db.licenses) :
         /\ file.db.licenses[i].email = email[p]
         /\ Len(file.db.licenses[i].activations) = max_activations[p]

\* C2: for every license, the distinct machineIds a success outcome has been
\* issued for number at most maxActivations.
IssuedWithinLimit ==
  \A p \in Inv :
    Succeeded(p) =>
      Cardinality({machine_id[q] :
                     q \in {x \in Inv : Succeeded(x) /\ email[x] = email[p]}})
        <= max_activations[p]

\* C3: no invocation loads the ledger while another one is between its load
\* and its save.
LedgerCriticalSection ==
  [][\A p \in Inv :
       (pc[p] = "load" /\ pc'[p] # "load") =>
         \A q \in Inv \ {p} : pc[q] \notin {"save", "dump"}]_vars

\* C4: when the invocations with valid keys on one license ask for different
\* machineIds, no more of them than maxActivations, then once all have
\* finished every one has a success outcome and the entry records every one
\* of their machineIds.
NoLostUpdate ==
  \A p \in Inv :
    LET V == {q \in Inv : Validated(q) /\ email[q] = email[p]}
    IN  ( /\ Validated(p)
          /\ \A q \in Inv : ~Running(q)
          /\ \A q, x \in V : q # x => machine_id[q] # machine_id[x]
          /\ Cardinality(V) <= max_activations[p] )
        =>
        ( /\ \A q \in V : Succeeded(q)
          /\ file.kind = "json"
          /\ \A q \in V :
               \E i \in 1..Len(file.db.licenses) :
                 /\ file.db.licenses[i].email = email[p]
                 /\ \E j \in 1..Len(file.db.licenses[i].activations) :
                      file.db.licenses[i].activations[j].machineId = machine_id[q] )

\* C5: run one at a time, an invocation that repeats the email, key and
\* machineId of an invocation that ended Activated decides AlreadyActive
\* with the same token and delivers that result, and the ledger it leaves
\* is the ledger it found, with one activation for that machineId.
Idempotence ==
  [][\A p, q \in Inv :
       ( /\ p # q
         /\ pc[p] = "done" /\ Outcome(p).message = MsgActivated
         /\ SameRequest(p, q) )
       =>
       /\ (pc[q] = "load" /\ pc'[q] # "load") =>
            /\ pc'[q] = "result"
            /\ result'[q][1].success
            /\ result'[q][1].message = MsgAlreadyActive
            /\ result'[q][1].activationToken = Outcome(p).activationToken
            /\ file' = file
            /\ file.kind = "json"
            /\ \E i \in 1..Len(file.db.licenses) :
                 /\ file.db.licenses[i].email = email[q]
                 /\ Cardinality({j \in 1..Len(file.db.licenses[i].activations) :
                      file.db.licenses[i].activations[j].machineId = machine_id[q]}) = 1
       /\ (pc[q] \in {"result", "write"} /\ pc'[q] # pc[q]) =>
            /\ file' = file
            /\ pc'[q] = "done" => results'[request_id[q]] = ResultFile(Outcome(q))]_vars

\* C5 witness: an Activated invocation and its repetition, both ended.
RepeatedActivation ==
  \E p, q \in Inv :
    /\ p # q /\ SameRequest(p, q)
    /\ pc[p] = "done" /\ Outcome(p).message = MsgActivated
    /\ pc[q] = "done" /\ Outcome(q).message = MsgAlreadyActive

\* C6: an invocation that starts after a success outcome was issued for its
\* email and machineId, with the same key and maxActivations, ends in
\* success (AlreadyActive) with the same token.
RetrySafety ==
  \A q \in Inv :
    ( /\ issued_before[q] # {}
      /\ Validated(q)
      /\ pc[q] \in {"done", "crashed"} )
    =>
    ( /\ Succeeded(q)
      /\ Outcome(q).message = MsgAlreadyActive
      /\ issued_before[q] = {Outcome(q).activationToken} )

\* C7: an invocation with a missing required field, an empty shared secret
\* or a master key that differs from the key derived from its email decides
\* at once on a failure outcome with an empty token; it never reaches the
\* load of the ledger, the ledger is as it was when it delivers the result,
\* and the result it delivers for its requestId is that failure.
InvalidRequestLeavesLedger ==
  [][\A p \in Inv :
       /\ ( /\ pc[p] = "idle" /\ pc'[p] # "idle"
            /\ \/ email'[p] = <<>> \/ master_key'[p] = <<>>
               \/ machine_id'[p] = <<>> \/ request_id'[p] = <<>>
               \/ encryption_key'[p] = <<>>
               \/ master_key'[p] # generate_master_key(email'[p], encryption_key'[p]) )
          =>
          ( /\ pc'[p] = "result"
            /\ ~result'[p][1].success
            /\ result'[p][1].activationToken = <<>>
            /\ result'[p][1].message \in {MsgMissing, MsgMisconfigured, MsgRejected}
            /\ file' = file
            /\ db' = db )
       /\ ( /\ pc[p] \in {"result", "write"} /\ pc'[p] # pc[p]
            /\ Outcome(p).message \in {MsgMissing, MsgMisconfigured, MsgRejected} )
          =>
          ( /\ pc'[p] \in {"write", "done"}
            /\ file' = file
            /\ db' = db
            /\ (pc'[p] = "done" /\ request_id[p] # <<>>) =>
                 results'[request_id[p]] = ResultFile(Outcome(p)) )]_vars

\* C7 witness: an invocation was rejected for its key while the ledger holds
\* entries, none of them for the rejected email.
RejectedWithoutEntry ==
  \E p \in Inv :
    /\ pc[p] = "done" /\ Outcome(p).message = MsgRejected
    /\ file.kind = "json" /\ file.db.licenses # <<>>
    /\ \A i \in 1..Len(file.db.licenses) : file.db.licenses[i].email # email[p]

\* C8: when the ledger an invocation loads has an entry for its email that
\* does not record its machineId and holds maxActivations activations, the
\* invocation decides LimitReached: failure, empty token, and the message
\* names the machineName of the entry's first activation; the ledger is
\* unchanged and that result is the one delivered.
LimitNamesFirstMachine ==
  [][\A p \in Inv :
       /\ \A i \in 1..Len(file.db.licenses) :
            ( /\ pc[p] = "load" /\ pc'[p] # "load"
              /\ file.kind = "json"
              /\ file.db.licenses[i].email = email[p]
              /\ \A j \in 1..Len(file.db.licenses[i].activations) :
                   file.db.licenses[i].activations[j].machineId # machine_id[p]
              /\ Len(file.db.licenses[i].activations) = max_activations[p] )
            =>
            ( /\ pc'[p] = "result"
              /\ ~result'[p][1].success
              /\ result'[p][1].activationToken = <<>>
              /\ result'[p][1].message =
                   MsgLimit(file.db.licenses[i].activations[1].machineName,
                            max_activations[p])
              /\ file' = file )
       /\ ( /\ pc[p] \in {"result", "write"} /\ pc'[p] # pc[p]
            /\ Outcome(p).message.occupied # <<>> )
          =>
          ( /\ file' = file
            /\ pc'[p] = "done" => results'[request_id[p]] = ResultFile(Outcome(p)) )]_vars

\* C8 witness: a LimitReached outcome on an entry whose first and last
\* activations have different machine names.
LimitOnEntryWithTwoNames ==
  \E p \in Inv :
    /\ pc[p] = "done" /\ ~Outcome(p).success
    /\ Outcome(p).message.occupied # <<>>
    /\ file.kind = "json"
    /\ \E i \in 1..Len(file.db.licenses) :
         LET acts == file.db.licenses[i].activations
         IN  /\ file.db.licenses[i].email = email[p]
             /\ Len(acts) = max_activations[p]
             /\ Len(acts) >= 2
             /\ acts[1].machineName # acts[Len(acts)].machineName
             /\ Outcome(p).message.occupied = acts[1].machineName

\* C9: a delivered outcome has success = true exactly when it is Activated
\* or AlreadyActive, and a non-empty token exactly when success = true;
\* MissingFields, ServerMisconfigured, Rejected and LimitReached outcomes
\* are failures with an empty token.
OutcomeMapping ==
  \A rid \in RequestIds :
    results[rid].kind = "json" =>
      LET o == results[rid].doc[1]
      IN  /\ o.success <=> o.message \in {MsgActivated, MsgAlreadyActive}
          /\ (o.activationToken # <<>>) <=> o.success
          /\ ( \/ o.message \in {MsgMissing, MsgMisconfigured, MsgRejected}
               \/ o.message.occupied # <<>> )
             => (~o.success /\ o.activationToken = <<>>)

\* C9 witness: an Activated, an AlreadyActive and a LimitReached outcome
\* have been delivered.
OutcomesOfThreeDecisions ==
  /\ \E r \in RequestIds :
       results[r].kind = "json" /\ results[r].doc[1].message = MsgActivated
  /\ \E r \in RequestIds :
       results[r].kind = "json" /\ results[r].doc[1].message = MsgAlreadyActive
  /\ \E r \in RequestIds :
       results[r].kind = "json" /\ results[r].doc[1].message.occupied # <<>>

\* C10: an invocation that finds licenses.json unparseable leaves the file
\* as it is and dies without a result: it never writes the ledger and never
\* builds or delivers an outcome.
CorruptLedgerKept ==
  /\ [][\A p \in Inv :
          (pc[p] = "load" /\ pc'[p] # "load" /\ file.kind = "partial") =>
            ( /\ pc'[p] = "crashed" /\ file' = file
              /\ results' = results /\ result' = result )]_vars
  /\ [](\A p \in Inv :
          pc[p] = "crashed" =>
            /\ result[p] = <<>>
            /\ results[request_id[p]].kind = "absent")
  /\ [][\A p \in Inv : pc[p] = "crashed" => pc'[p] = "crashed"]_vars

\* C10 witness: an invocation has died on an unparseable ledger, which is
\* still unparseable after every invocation has ended.
DiedOnCorruptLedger ==
  /\ \E p \in Inv : pc[p] = "crashed"
  /\ \A p \in Inv : pc[p] \in {"done", "crashed"}
  /\ file.kind = "partial"

\* C11: the save is atomic: at every point licenses.json holds a complete
\* ledger (the previous one or the new one), so that an invocation loading at
\* that point, or a save stopped at that point, finds a complete ledger.
PersistIsAtomic ==
  file.kind # "partial"

\* newdb has every entry of olddb, with its email, masterKey and createdAt,
\* and every activation of it, with its machineId, machineName, activatedAt.
Contains(newdb, olddb) ==
  \A i \in 1..Len(olddb.licenses) :
    \E j \in 1..Len(newdb.licenses) :
      /\ newdb.licenses[j].email = olddb.licenses[i].email
      /\ newdb.licenses[j].masterKey = olddb.licenses[i].masterKey
      /\ newdb.licenses[j].createdAt = olddb.licenses[i].createdAt
      /\ \A a \in 1..Len(olddb.licenses[i].activations) :
           \E b \in 1..Len(newdb.licenses[j].activations) :
             newdb.licenses[j].activations[b] = olddb.licenses[i].activations[a]

\* C12: the ledger only grows: every complete ledger written to
\* licenses.json has the entries and the activations of the complete ledger
\* the file held before.
LedgerOnlyGrows ==
  [][file'.kind = "json" => Contains(file'.db, durable)]_vars

\* C13: in every state of the persisted ledger, no two activations of one
\* entry have the same machineId.
MachineIdsUnique ==
  file.kind = "json" =>
    \A i \in 1..Len(file.db.licenses) :
      \A a, b \in 1..Len(file.db.licenses[i].activations) :
        a # b => file.db.licenses[i].activations[a].machineId
                   # file.db.licenses[i].activations[b].machineId

\* C13 witness: two invocations for the same email and machineId have both
\* ended Activated (they overlapped) and the entry is in the ledger.
SameMachineActivatedTwice ==
  \E p, q \in Inv :
    /\ p # q /\ SameRequest(p, q)
    /\ pc[p] = "done" /\ Outcome(p).message = MsgActivated
    /\ pc[q] = "done" /\ Outcome(q).message = MsgActivated
    /\ file.kind = "json"
    /\ \E i \in 1..Len(file.db.licenses) :
         /\ file.db.licenses[i].email = email[p]
         /\ \E a \in 1..Len(file.db.licenses[i].activations) :
              file.db.licenses[i].activations[a].machineId = machine_id[p]

\* C14: in every state of the persisted ledger, no two entries have the same
\* email, and the entry an invocation's INPUT_EMAIL matches up to letter case
\* and surrounding whitespace is the entry of the email it searches for.
EmailsUnique ==
  file.kind = "json" =>
    /\ \A i, j \in 1..Len(file.db.licenses) :
         i # j => file.db.licenses[i].email # file.db.licenses[j].email
    /\ \A i \in 1..Len(file.db.licenses), p \in Inv :
         ( /\ pc[p] \in {"load", "save", "dump", "result", "write", "done"}
           /\ Lower(Strip(INPUT_EMAIL[p])) = Lower(Strip(file.db.licenses[i].email)) )
         => file.db.licenses[i].email = email[p]

\* C14 witness: two first-time invocations whose INPUT_EMAIL differ in case
\* and whitespace overlapped (both ended Activated with maxActivations = 1)
\* and the ledger has the entry of their email.
SameEmailTwoSpellings ==
  \E p, q \in Inv :
    /\ INPUT_EMAIL[p] # INPUT_EMAIL[q] /\ email[p] = email[q]
    /\ max_activations[p] = 1 /\ max_activations[q] = 1
    /\ pc[p] = "done" /\ Outcome(p).message = MsgActivated
    /\ pc[q] = "done" /\ Outcome(q).message = MsgActivated
    /\ file.kind = "json"
    /\ \E i \in 1..Len(file.db.licenses) : file.db.licenses[i].email = email[p]

\* C15: no save changes the masterKey of an entry the persisted ledger
\* already has: an entry of the ledger a save replaces and an entry of the
\* ledger it writes that have the same email have the same masterKey, also
\* when the saving invocation ran with another ENCRYPTION_KEY.
StoredKeyNeverChanges ==
  [][file'.kind = "json" =>
       \A i \in 1..Len(durable.licenses) :
         \A j \in 1..Len(file'.db.licenses) :
           durable.licenses[i].email = file'.db.licenses[j].email =>
             durable.licenses[i].masterKey = file'.db.licenses[j].masterKey]_vars

\* C16: only an Activated invocation writes licenses.json: a step that
\* decides MissingFields, ServerMisconfigured, Rejected, AlreadyActive or
\* LimitReached is taken before any save of that invocation and leaves the
\* file, lastUpdated included, as it was, and so do the steps that deliver
\* its result.
OnlyActivatedSaves ==
  [][\A p \in Inv :
       /\ ( /\ pc[p] # "result" /\ pc'[p] = "result"
            /\ result'[p][1].message # MsgActivated )
          => (file' = file /\ pc[p] \in {"idle", "load"})
       /\ (pc[p] \in {"result", "write"} /\ pc'[p] # pc[p])
          => (file' = file /\ pc'[p] \in {"write", "done"})]_vars

\* C16 witness: an invocation ended LimitReached later than the ledger's
\* lastUpdated.
LimitReachedAfterLastUpdate ==
  \E p \in Inv :
    /\ pc[p] = "done" /\ Outcome(p).message.occupied # <<>>
    /\ file.kind = "json"
    /\ Outcome(p).timestamp > file.db.lastUpdated

\* C17: run one at a time, an Activated invocation saves the ledger it
\* loaded with one change: the activation {machineId, machineName or
\* "Unknown", the time of the activation} at the end of the entry of its
\* email, that entry being added at the end of licenses (verified masterKey,
\* isActive, no other activation) when the email was not there; lastUpdated
\* is set to the time after the activation.
ActivatedSavesOneChange ==
  [][\A p \in Inv :
       LET L == file.db.licenses
           act(t) == [machineId |-> machine_id[p],
                      machineName |-> IF machine_name[p] = <<>>
                                        THEN Unknown
                                        ELSE machine_name[p],
                      activatedAt |-> t]
       IN
       /\ (pc[p] = "load" /\ pc'[p] = "save") =>
            /\ db'[p].version = "1.0"
            /\ master_key[p] = generate_master_key(email[p], encryption_key[p])
            /\ \E t \in now..MaxTime :
                 /\ db'[p].lastUpdated \in t..MaxTime
                 /\ IF \E i \in 1..Len(L) : L[i].email = email[p]
                      THEN \E i \in 1..Len(L) :
                             /\ L[i].email = email[p]
                             /\ db'[p].licenses =
                                  [L EXCEPT ![i].activations = Append(@, act(t))]
                      ELSE \E tc \in now..t :
                             db'[p].licenses =
                               Append(L, [email |-> email[p],
                                          masterKey |-> master_key[p],
                                          createdAt |-> tc, isActive |-> TRUE,
                                          activations |-> <<act(t)>>])
       /\ (pc[p] = "save" /\ pc'[p] # "save") =>
            now' >= db[p].lastUpdated
       /\ (pc[p] = "dump" /\ pc'[p] # "dump") =>
            /\ file'.kind = "json"
            /\ file'.db = db[p]
            /\ result'[p][1].message = MsgActivated
       /\ (pc[p] = "write" /\ pc'[p] # "write") =>
            results'[request_id[p]] = ResultFile(Outcome(p))]_vars

\* C17 witness: an Activated invocation has ended, and the ledger has two
\* entries, the first with two activations.
SavedIntoLedgerOfTwo ==
  /\ \E p \in Inv : pc[p] = "done" /\ Outcome(p).message = MsgActivated
  /\ file.kind = "json"
  /\ Len(file.db.licenses) = 2
  /\ Len(file.db.licenses[1].activations) = 2

\* C18: run one at a time with maxActivations >= 1, no invocation dies; a
\* started invocation ends; it delivers one result for its requestId, of one
\* of the six decisions, a complete document that it does not change once
\* it has ended; the entry LimitReached names has an activation.
RunsAloneToOutcome ==
  /\ [](\A p \in Inv :
          /\ pc[p] # "crashed"
          /\ (pc[p] \in {"load", "save", "dump", "result"} /\ request_id[p] # <<>>)
               => results[request_id[p]].kind = "absent"
          /\ pc[p] \in {"result", "write", "done"} =>
               /\ Outcome(p).requestId = request_id[p]
               /\ \/ Outcome(p).message \in
                       {MsgMissing, MsgMisconfigured, MsgRejected,
                        MsgAlreadyActive, MsgActivated}
                  \/ /\ Outcome(p).message =
                          MsgLimit(Outcome(p).message.occupied, max_activations[p])
                     /\ \E i \in 1..Len(durable.licenses) :
                          /\ durable.licenses[i].email = email[p]
                          /\ durable.licenses[i].activations # <<>>
                          /\ durable.licenses[i].activations[1].machineName
                               = Outcome(p).message.occupied
          /\ (pc[p] = "done" /\ request_id[p] # <<>>) =>
               results[request_id[p]] = ResultFile(Outcome(p)))
  /\ [][\A p \in Inv :
          /\ (pc[p] = "write" /\ pc'[p] # "write") =>
               (pc'[p] = "done" /\ results'[request_id[p]] = ResultFile(Outcome(p)))
          /\ pc[p] = "done" => (pc'[p] = "done" /\ result'[p] = result[p])]_vars
  /\ [][\A r \in RequestIds :
          results'[r] # results[r] =>
            \E p \in Inv :
              /\ request_id[p] = r
              /\ pc[p] \in {"result", "write"} /\ pc'[p] # pc[p]]_vars
  /\ (\E p \in Inv : Running(p)) ~> (\A p \in Inv : pc[p] \in {"idle", "done"})

\* C18 witness: invocations run one at a time have ended in LimitReached and
\* in Rejected.
EndedLimitAndRejected ==
  /\ \E p \in Inv : pc[p] = "done" /\ Outcome(p).message.occupied # <<>>
  /\ \E p \in Inv : pc[p] = "done" /\ Outcome(p).message = MsgRejected

\* C19: MissingFields is decided exactly when email, masterKey, machineId or
\* requestId is empty, an empty ENCRYPTION_KEY or machineName
\* notwithstanding; an invocation with an empty machineName that goes on to
\* save records its activation with machineName "Unknown".
MachineNameOptional ==
  [][\A p \in Inv :
       /\ (pc[p] = "idle" /\ pc'[p] # "idle") =>
            ( (pc'[p] = "result" /\ result'[p][1].message = MsgMissing)
              <=> ( \/ email'[p] = <<>> \/ master_key'[p] = <<>>
                    \/ machine_id'[p] = <<>> \/ request_id'[p] = <<>> ) )
       /\ (pc[p] = "load" /\ pc'[p] = "save" /\ machine_name[p] = <<>>) =>
            \E i \in 1..Len(db'[p].licenses) :
              LET acts == db'[p].licenses[i].activations
              IN  /\ db'[p].licenses[i].email = email[p]
                  /\ acts[Len(acts)].machineId = machine_id[p]
                  /\ acts[Len(acts)].machineName = Unknown]_vars

\* C19 witness: an invocation with an empty machineName has ended Activated
\* and one with an empty requestId and an empty ENCRYPTION_KEY has ended
\* MissingFields.
UnnamedMachineActivated ==
  /\ \E p \in Inv :
       /\ pc[p] = "done" /\ Outcome(p).message = MsgActivated
       /\ machine_name[p] = <<>>
  /\ \E p \in Inv :
       /\ pc[p] = "done" /\ Outcome(p).message = MsgMissing
       /\ encryption_key[p] = <<>>

\* C20: in every state of the persisted ledger, every entry has at least
\* one activation.
NoEmptyEntryPersisted ==
  file.kind = "json" =>
    \A i \in 1..Len(file.db.licenses) : file.db.licenses[i].activations # <<>>

\* C20 witness: the ledger has an entry for an email while an invocation
\* that loaded the ledger without it, and created the entry in memory with
\* its own activation, is about to save.
EntryCreatedInMemory ==
  /\ file.kind = "json"
  /\ Len(file.db.licenses) >= 1
  /\ \E p \in Inv :
       /\ pc[p] = "save"
       /\ db[p].licenses[1].email = file.db.licenses[1].email
       /\ Len(db[p].licenses[1].activations) = 1
       /\ db[p].licenses[1].activations[1].machineId = machine_id[p]
       /\ file.db.licenses[1].activations[1].machineId # machine_id[p]
====
